---------------------------- MODULE Spec2Model ----------------------------
(***************************************************************************)
(* A model of the rusterizer rendering pipeline: the z-buffer              *)
(* (src/src/main.rs), the per-frame render closure (src/src/main.rs), the  *)
(* edge-function rasterizer (src/src/shading.rs), and the linear algebra   *)
(* and camera transforms (src/src/data.rs, src/src/transformations.rs).    *)
(*                                                                         *)
(* Numbers.  Depths in the z-buffer are f32 values; they are modelled as   *)
(* integers with the order of the floats, the largest finite one being     *)
(* F32_MAX, followed by +infinity and a NaN that compares false with       *)
(* everything.  Vector and matrix entries are modelled as exact rationals  *)
(* (pairs <<numerator, denominator>>): rounding of f32 arithmetic is not   *)
(* modelled.  The screen is WIDTH x HEIGHT pixels, scaled down from the    *)
(* 600 x 600 of the program.                                               *)
(***************************************************************************)
EXTENDS Integers, Sequences, FiniteSets, TLC

VARIABLES
    zbuff,                 \* ZBuffer.depth_buffer: column x -> row y -> depth
    zcall,                 \* the last call made on the ZBuffer API and its result
    fresh,                 \* cells not updated since the last reset(F32_MAX)
    pc,                    \* position of the render closure inside a frame
    frames,                \* number of frames completed
    frame_buffer_image,    \* the canvas image: x -> y -> colour
    triangles_ec,          \* the frame's triangles, by what each one covers
    finished,              \* rasterization workers, in the order they finished
    fragments,             \* Vec<Fragment> returned by rasterization
    survived_fragments,    \* fragments accepted by the depth fold
    raster_pc,             \* rasterizer on its own: "input" or "done"
    vs_dc,                 \* device-space vertices of two triangles
    raster_out,            \* the fragments rasterization emits for each
    look_pc,               \* camera transform: "input", "viewed", "restored"
    camera,                \* the arguments eye, center, up
    world_p,               \* a world-space point P, w = 1
    view_mat,              \* look_at(eye, center, up)
    eye_p,                 \* view_mat applied to P
    inverse_mat,           \* inverse_look_at(eye, center, up)
    product_mat,           \* inverse_mat.dot_mat(view_mat)
    back_p,                \* inverse_mat applied to eye_p
    call,                  \* a library call: its name, arguments and result
    mat,                   \* a Mat3 or Mat4 under transpose and set_entry
    logical,               \* the matrix mat stands for, entry by entry
    mat_steps,             \* how many operations mat has undergone
    state,                 \* the canvas's KeyboardMouseStates
    gouraud_shading,       \* captured by the render closure, main.rs:183
    cam_pos_wc,            \* captured by the render closure, main.rs:192
    arc_ball_initialized,  \* captured by the render closure, main.rs:193
    arc_ball_previous,     \* captured by the render closure, main.rs:194
    frame_i,               \* the closure's counter i, main.rs:202
    last,                  \* the last step of the canvas and what it observed
    preceding_press        \* arcball point of the last press a frame observed

zvars == <<zcall, fresh>>
framevars == <<pc, frames, frame_buffer_image, triangles_ec, finished,
               fragments, survived_fragments>>
rastervars == <<raster_pc, vs_dc, raster_out>>
lookvars == <<look_pc, camera, world_p, view_mat, eye_p, inverse_mat,
              product_mat, back_p>>
algvars == <<call>>
matvars == <<mat, logical, mat_steps>>
canvasvars == <<state, gouraud_shading, cam_pos_wc, arc_ball_initialized,
                arc_ball_previous, frame_i, last, preceding_press>>
purevars == <<rastervars, lookvars, algvars, matvars, canvasvars>>
vars == <<zbuff, zvars, framevars, canvasvars, purevars>>

----------------------------------------------------------------------------
(* Bounds and constants *)

WIDTH == 2
HEIGHT == 2
F32_MAX == 9
MaxDepth == 2
NTri == 2
MaxFrags == 2
MaxFrames == 2
MaxOff == 0
MaxCoord == 4
MaxCenter == 1
MaxGen == 2
MaxT == 1
MaxIndex == 5
MaxSteps == 2
MaxChan == 4
MaxVerts == 3
MaxOut == 2
MaxFar == 3
MaxFaces == 2
MaxCursorY == 1
MaxDpi == 1

F32_INF == F32_MAX + 1
F32_NAN == F32_MAX + 2

\* the finite depths of the model; F32_MAX itself is one of them
FiniteDepths == (F32_MAX - MaxDepth)..F32_MAX
Floats == FiniteDepths \cup {F32_INF, F32_NAN}

\* a > b on f32: false as soon as one side is NaN
FloatGtNonStrict(a, b) == a # F32_NAN /\ b # F32_NAN /\ a >= b
FloatGt(a, b) == a # F32_NAN /\ b # F32_NAN /\ a > b

Xs == 0..(WIDTH - 1)
Ys == 0..(HEIGHT - 1)
Cells == Xs \X Ys

----------------------------------------------------------------------------
(* f32 entries of vectors and matrices, as exact rationals <<n, d>> in     *)
(* lowest terms with d > 0.  <<0, 0>> stands for a value that is not a     *)
(* finite number (a division by zero, or a square root the rationals do    *)
(* not hold); like NaN it is absorbing and compares false.                 *)

RECURSIVE GCD(_, _)
GCD(a, b) == IF b = 0 THEN a ELSE GCD(b, a % b)
Abs(n) == IF n < 0 THEN -n ELSE n

NotFinite == <<0, 0>>
IsFinite(q) == q[2] # 0
Rat(n, d) ==
    IF d = 0 THEN NotFinite
    ELSE LET g == GCD(Abs(n), Abs(d))
             s == IF d < 0 THEN -1 ELSE 1
         IN  <<s * (n \div g), s * (d \div g)>>
RInt(n) == <<n, 1>>
RAdd(p, q) ==
    IF p[2] = 0 \/ q[2] = 0 THEN NotFinite
    ELSE Rat(p[1] * q[2] + q[1] * p[2], p[2] * q[2])
RNeg(p) == <<-p[1], p[2]>>
RSub(p, q) == RAdd(p, RNeg(q))
RMul(p, q) ==
    IF p[2] = 0 \/ q[2] = 0 THEN NotFinite
    ELSE Rat(p[1] * q[1], p[2] * q[2])
RDiv(p, q) ==
    IF p[2] = 0 \/ q[2] = 0 \/ q[1] = 0 THEN NotFinite
    ELSE Rat(p[1] * q[2], p[2] * q[1])
\* comparisons of f32: false when a side is not a finite number
RLt(p, q) == p[2] # 0 /\ q[2] # 0 /\ p[1] * q[2] < q[1] * p[2]
RGe(p, q) == p[2] # 0 /\ q[2] # 0 /\ p[1] * q[2] >= q[1] * p[2]
RGt(p, q) == RLt(q, p)

RECURSIVE ISqrtFrom(_, _)
ISqrtFrom(n, k) == IF (k + 1) * (k + 1) > n THEN k ELSE ISqrtFrom(n, k + 1)
ISqrt(n) == ISqrtFrom(n, 0)
IsSquare(n) == n >= 0 /\ ISqrt(n) * ISqrt(n) = n
\* f32::sqrt, where the root is rational
RSqrt(p) ==
    IF p[2] = 0 \/ ~IsSquare(p[1]) \/ ~IsSquare(p[2]) THEN NotFinite
    ELSE <<ISqrt(p[1]), ISqrt(p[2])>>

\* f32::round: to the nearest integer, halves away from zero
RRound(p) ==
    IF p[2] = 0 THEN NotFinite
    ELSE IF p[1] >= 0 THEN RInt((2 * p[1] + p[2]) \div (2 * p[2]))
    ELSE RInt(-((2 * (-p[1]) + p[2]) \div (2 * p[2])))
\* f32::min and f32::max
RMin(p, q) == IF p[2] = 0 THEN q ELSE IF q[2] = 0 THEN p
              ELSE IF RLt(q, p) THEN q ELSE p
RMax(p, q) == IF p[2] = 0 THEN q ELSE IF q[2] = 0 THEN p
              ELSE IF RLt(p, q) THEN q ELSE p
\* `as u32`: truncation toward zero, saturating at 0, NaN to 0
AsU32(p) == IF p[2] = 0 \/ p[1] < 0 THEN 0 ELSE p[1] \div p[2]

----------------------------------------------------------------------------
(* Vec3 and Vec4, src/src/data.rs:546-1123: [transposed, data] *)

Vec3_new_xyz(x, y, z) ==
    [transposed |-> FALSE, data |-> [i \in 0..2 |-> <<x, y, z>>[i + 1]]]
Vec4_new_xyzw(x, y, z, w) ==
    [transposed |-> FALSE, data |-> [i \in 0..3 |-> <<x, y, z, w>>[i + 1]]]
X(v) == v.data[0]
Y(v) == v.data[1]
Z(v) == v.data[2]
W(v) == v.data[3]
Vec3_from(v4) == Vec3_new_xyz(X(v4), Y(v4), Z(v4))
Vec4_from(v3, e4) == Vec4_new_xyzw(X(v3), Y(v3), Z(v3), e4)

----------------------------------------------------------------------------
(* ZBuffer, src/src/main.rs:367-415 *)

ZBuffer_new(width, height, init_val) ==
    [x \in 0..(width - 1) |-> [y \in 0..(height - 1) |-> init_val]]

ZBuffer_reset_first_column(zb, val) ==
    [x \in DOMAIN zb |-> IF x = 0 THEN [y \in DOMAIN zb[x] |-> val] ELSE zb[x]]
ZBuffer_reset(zb, val) ==
    [x \in DOMAIN zb |-> [y \in DOMAIN zb[x] |-> val]]

ZBuffer__get(zb, x, y) == zb[x][y]

\* update returns the new buffer and the boolean the method returns
ZBuffer_update_non_strict(zb, x, y, val) ==
    IF FloatGtNonStrict(ZBuffer__get(zb, x, y), val)
    THEN [zbuff |-> [zb EXCEPT ![x][y] = val], ret |-> TRUE]
    ELSE [zbuff |-> zb, ret |-> FALSE]
ZBuffer_update(zb, x, y, val) ==
    IF FloatGt(ZBuffer__get(zb, x, y), val)
    THEN [zbuff |-> [zb EXCEPT ![x][y] = val], ret |-> TRUE]
    ELSE [zbuff |-> zb, ret |-> FALSE]

----------------------------------------------------------------------------
(* The ZBuffer API on its own: any sequence of reset and update calls *)

NoCall == [op |-> "new", x |-> 0, y |-> 0, val |-> F32_MAX, ret |-> FALSE,
           first |-> FALSE, before |-> ZBuffer_new(WIDTH, HEIGHT, F32_MAX)]

FrameIdle ==
    /\ pc = "idle"
    /\ frames = 0
    /\ frame_buffer_image = [x \in Xs |-> [y \in Ys |-> 0]]
    /\ triangles_ec = <<>>
    /\ finished = <<>>
    /\ fragments = <<>>
    /\ survived_fragments = <<>>

RasterIdle ==
    /\ raster_pc = "off"
    /\ vs_dc = <<>>
    /\ raster_out = <<>>

CallIdle == call = [op |-> "off"]

CanvasIdle ==
    /\ state = <<>>
    /\ gouraud_shading = TRUE
    /\ cam_pos_wc = <<>>
    /\ arc_ball_initialized = FALSE
    /\ arc_ball_previous = <<>>
    /\ frame_i = 0
    /\ last = [op |-> "off"]
    /\ preceding_press = <<>>

MatIdle ==
    /\ mat = <<>>
    /\ logical = <<>>
    /\ mat_steps = 0

LookIdle ==
    /\ CallIdle
    /\ look_pc = "off"
    /\ camera = <<>>
    /\ world_p = <<>>
    /\ view_mat = <<>>
    /\ eye_p = <<>>
    /\ inverse_mat = <<>>
    /\ product_mat = <<>>
    /\ back_p = <<>>

InitZBuffer ==
    /\ zbuff = ZBuffer_new(WIDTH, HEIGHT, F32_MAX)
    /\ zcall = NoCall
    /\ fresh = Cells
    /\ FrameIdle
    /\ CanvasIdle
    /\ MatIdle
    /\ RasterIdle
    /\ LookIdle

CallUpdate ==
    \E x \in Xs, y \in Ys, val \in Floats :
        LET r == ZBuffer_update(zbuff, x, y, val)
        IN  /\ zbuff' = r.zbuff
            /\ zcall' = [op |-> "update", x |-> x, y |-> y, val |-> val,
                         ret |-> r.ret, first |-> (<<x, y>> \in fresh),
                         before |-> zbuff]
            /\ fresh' = fresh \ {<<x, y>>}
            /\ UNCHANGED <<framevars, purevars>>

CallReset ==
    \E val \in Floats :
        /\ zbuff' = ZBuffer_reset(zbuff, val)
        /\ zcall' = [op |-> "reset", x |-> 0, y |-> 0, val |-> val,
                     ret |-> FALSE, first |-> FALSE, before |-> zbuff]
        /\ fresh' = IF val = F32_MAX THEN Cells ELSE {}
        /\ UNCHANGED <<framevars, purevars>>

NextZBuffer == CallUpdate \/ CallReset

SpecZBuffer == InitZBuffer /\ [][NextZBuffer]_vars

----------------------------------------------------------------------------
(* The render closure, src/src/main.rs:204-363, one frame after another.   *)
(*                                                                         *)
(* A fragment is [x, y, z, tri]: its pixel, its depth and the triangle it  *)
(* comes from, which stands for the attributes (normal_ec, coord_ec) the   *)
(* shading reads.  A triangle of the frame is given by the fragments its   *)
(* rasterization closure returns: at most one per pixel, in the order of   *)
(* the loops `for i in x_min..x_max { for j in y_min..y_max`.              *)

BLACK == 0

\* the pixels in the order of the two loops of rasterization
CellSeq == [k \in 1..(WIDTH * HEIGHT) |->
                <<(k - 1) \div HEIGHT, (k - 1) % HEIGHT>>]

Slots == (1..NTri) \X Cells
SlotSets == {S \in SUBSET Slots : Cardinality(S) <= MaxFrags}

\* the fragments of triangle t, for the covered slots S with depths d
TriangleFragments(S, d, t) ==
    LET covered == SelectSeq(CellSeq, LAMBDA c : <<t, c>> \in S)
    IN  [k \in 1..Len(covered) |->
            [x |-> covered[k][1], y |-> covered[k][2],
             z |-> d[<<t, covered[k]>>], tri |-> t]]

RECURSIVE Flatten(_)
Flatten(arr) ==
    IF arr = <<>> THEN <<>> ELSE Head(arr) \o Flatten(Tail(arr))

\* rayon's indexed collect (shading.rs:174-227) puts the result of the
\* closure for triangle k at position k, whatever the order `done` in which
\* the workers finished; shading.rs:229-234 then appends them in that order
rasterization_completion_order(tris, done) ==
    Flatten([k \in 1..Len(tris) |-> tris[done[k]]])
rasterization(tris, done) ==
    Flatten([k \in 1..Len(tris) |-> tris[k]])

\* one turn of the loop main.rs:321-327 on the popped fragment f
depth_fold_keep_all(zb, sv, f) ==
    LET r == ZBuffer_update(zb, f.x, f.y, f.z)
    IN  [zbuff |-> r.zbuff, survived |-> Append(sv, f)]
depth_fold(zb, sv, f) ==
    LET r == ZBuffer_update(zb, f.x, f.y, f.z)
    IN  [zbuff |-> r.zbuff,
         survived |-> IF r.ret THEN Append(sv, f) ELSE sv]

\* get_gouraud_color / shade (main.rs:333-339): the colour of a fragment is a
\* function of its attributes
get_color(f) == f.tri

\* the loop main.rs:341-345 over the colours, in the order of the survivors
RECURSIVE write_colors_reversed(_, _)
write_colors_reversed(img, sv) ==
    IF sv = <<>> THEN img
    ELSE LET f == sv[Len(sv)]
         IN  write_colors_reversed([img EXCEPT ![f.x][f.y] = get_color(f)],
                                   SubSeq(sv, 1, Len(sv) - 1))
RECURSIVE write_colors(_, _)
write_colors(img, sv) ==
    IF sv = <<>> THEN img
    ELSE LET f == Head(sv)
         IN  write_colors([img EXCEPT ![f.x][f.y] = get_color(f)], Tail(sv))

Init ==
    /\ zbuff = ZBuffer_new(WIDTH, HEIGHT, F32_MAX)
    /\ zcall = NoCall
    /\ fresh = Cells
    /\ FrameIdle
    /\ CanvasIdle
    /\ MatIdle
    /\ RasterIdle
    /\ LookIdle

\* main.rs:205: the frame buffer is cleared
BeginFrame ==
    /\ pc = "idle"
    /\ frames < MaxFrames
    /\ frame_buffer_image' = [x \in Xs |-> [y \in Ys |-> BLACK]]
    /\ pc' = "transform"
    /\ UNCHANGED <<purevars, zbuff, zvars, frames, triangles_ec, finished, fragments,
                   survived_fragments>>

\* main.rs:206-318: the camera and the eye-space triangles of this frame
Transform ==
    /\ pc = "transform"
    /\ \E S \in SlotSets :
         \E d \in [S -> Floats] :
            triangles_ec' = [t \in 1..NTri |-> TriangleFragments(S, d, t)]
    /\ pc' = "rasterize"
    /\ UNCHANGED <<purevars, zbuff, zvars, frames, frame_buffer_image, fragments,
                   survived_fragments, finished>>

\* shading.rs:174-227: the worker of triangle t finishes
WorkerFinish ==
    /\ pc = "rasterize"
    /\ \E t \in 1..NTri :
         /\ \A k \in 1..Len(finished) : finished[k] # t
         /\ finished' = Append(finished, t)
    /\ UNCHANGED <<purevars, zbuff, zvars, pc, frames, frame_buffer_image, triangles_ec,
                   fragments, survived_fragments>>

\* shading.rs:229-234 and main.rs:320: rasterization returns
RasterizationReturn ==
    /\ pc = "rasterize"
    /\ Len(finished) = NTri
    /\ fragments' = rasterization(triangles_ec, finished)
    /\ survived_fragments' = <<>>
    /\ pc' = "fold"
    /\ UNCHANGED <<purevars, zbuff, zvars, frames, frame_buffer_image, triangles_ec,
                   finished>>

\* main.rs:321-327: one fragment is popped and folded into the z-buffer
FoldStep ==
    /\ pc = "fold"
    /\ fragments # <<>>
    /\ LET f == fragments[Len(fragments)]
           r == depth_fold(zbuff, survived_fragments, f)
       IN  /\ zbuff' = r.zbuff
           /\ survived_fragments' = r.survived
    /\ fragments' = SubSeq(fragments, 1, Len(fragments) - 1)
    /\ UNCHANGED <<purevars, zvars, pc, frames, frame_buffer_image, triangles_ec, finished>>

\* main.rs:333-345: the survivors are shaded and written to the frame buffer
ShadeAndWrite ==
    /\ pc = "fold"
    /\ fragments = <<>>
    /\ frame_buffer_image' = write_colors(frame_buffer_image, survived_fragments)
    /\ pc' = "reset"
    /\ UNCHANGED <<purevars, zbuff, zvars, frames, triangles_ec, finished, fragments,
                   survived_fragments>>

\* main.rs:362: the z-buffer is reset and the closure returns
EndFrame_no_reset ==
    /\ pc = "reset"
    /\ pc' = "idle"
    /\ frames' = frames + 1
    /\ triangles_ec' = <<>>
    /\ survived_fragments' = <<>>
    /\ finished' = <<>>
    /\ UNCHANGED <<purevars, zbuff, zvars, frame_buffer_image, fragments>>
EndFrame ==
    /\ pc = "reset"
    /\ zbuff' = ZBuffer_reset(zbuff, F32_MAX)
    /\ pc' = "idle"
    /\ frames' = frames + 1
    /\ triangles_ec' = <<>>
    /\ survived_fragments' = <<>>
    /\ finished' = <<>>
    /\ UNCHANGED <<purevars, zvars, frame_buffer_image, fragments>>

Next ==
    \/ BeginFrame
    \/ Transform
    \/ WorkerFinish
    \/ RasterizationReturn
    \/ FoldStep
    \/ ShadeAndWrite
    \/ EndFrame

Spec == Init /\ [][Next]_vars

----------------------------------------------------------------------------
(* The rasterizer, src/src/shading.rs:146-235 and 286-290 *)

\* the edge function, shading.rs:286-290
triangle_area_negated(a, b, c) ==
    RSub(RMul(RSub(Y(c), Y(a)), RSub(X(b), X(a))),
         RMul(RSub(X(c), X(a)), RSub(Y(b), Y(a))))
triangle_area(a, b, c) ==
    RSub(RMul(RSub(X(c), X(a)), RSub(Y(b), Y(a))),
         RMul(RSub(Y(c), Y(a)), RSub(X(b), X(a))))

\* get_min_max without its clamp to upper_bound
get_min_max_unclamped(a, b, c, upper_bound, lower_bound) ==
    LET min0 == RRound(RMin(RMin(a, b), c))
        max0 == RRound(RMax(RMax(a, b), c))
        min == IF RLt(min0, lower_bound) THEN lower_bound ELSE min0
    IN  <<AsU32(min), AsU32(max0)>>
\* shading.rs:146-159: the rounded, clamped extent of three coordinates
get_min_max(a, b, c, upper_bound, lower_bound) ==
    LET min0 == RRound(RMin(RMin(a, b), c))
        max0 == RRound(RMax(RMax(a, b), c))
        min == IF RLt(min0, lower_bound) THEN lower_bound ELSE min0
        max == IF RGt(max0, upper_bound) THEN upper_bound ELSE max0
    IN  <<AsU32(min), AsU32(max)>>

\* the centre of pixel (i, j), shading.rs:199-202
pixel_centre(i, j) ==
    Vec4_new_xyzw(Rat(2 * i + 1, 2), Rat(2 * j + 1, 2), RInt(0), RInt(0))

\* the three edge-function values of pixel (i, j), shading.rs:203-205
edge_functions(v0_dc, v1_dc, v2_dc, i, j) ==
    LET p == pixel_centre(i, j)
    IN  <<triangle_area(v1_dc, v2_dc, p),
          triangle_area(v2_dc, v0_dc, p),
          triangle_area(v0_dc, v1_dc, p)>>

\* the coverage test, shading.rs:206
covered(e) ==
    RGe(e[1], RInt(0)) /\ RGe(e[2], RInt(0)) /\ RGe(e[3], RInt(0))

\* shading.rs:208-222: the fragment of a covered pixel; its weights stand for
\* the attributes interpolated with them
make_fragment(v0_dc, v1_dc, v2_dc, area, e, i, j) ==
    LET w0 == RDiv(e[1], area)
        w1 == RDiv(e[2], area)
        w2 == RDiv(e[3], area)
        z == RDiv(RInt(1), RAdd(RAdd(RMul(w0, Z(v0_dc)), RMul(w1, Z(v1_dc))),
                                RMul(w2, Z(v2_dc))))
    IN  [x |-> i, y |-> j, z |-> z, weights |-> <<w0, w1, w2>>]

\* shading.rs:187-226: the closure of one triangle, from its device-space
\* vertices on
rasterize_triangle(v0_dc, v1_dc, v2_dc, w_f, h_f) ==
    LET area == triangle_area(v0_dc, v1_dc, v2_dc)
        xs == get_min_max(X(v0_dc), X(v1_dc), X(v2_dc), w_f, RInt(0))
        ys == get_min_max(Y(v0_dc), Y(v1_dc), Y(v2_dc), h_f, RInt(0))
        nx == IF xs[2] > xs[1] THEN xs[2] - xs[1] ELSE 0
        ny == IF ys[2] > ys[1] THEN ys[2] - ys[1] ELSE 0
        pixels == [k \in 1..(nx * ny) |->
                      <<xs[1] + ((k - 1) \div ny), ys[1] + ((k - 1) % ny)>>]
        inside == SelectSeq(pixels, LAMBDA q :
                      covered(edge_functions(v0_dc, v1_dc, v2_dc, q[1], q[2])))
    IN  [k \in 1..Len(inside) |->
            make_fragment(v0_dc, v1_dc, v2_dc, area,
                          edge_functions(v0_dc, v1_dc, v2_dc,
                                         inside[k][1], inside[k][2]),
                          inside[k][1], inside[k][2])]

\* device-space vertices on the integer grid of the screen and MaxOff beyond
DevPoints ==
    {Vec4_new_xyzw(RInt(x), RInt(y), RInt(1), RInt(1)) :
        <<x, y>> \in (0..(WIDTH + MaxOff)) \X (0..(HEIGHT + MaxOff))}

\* two triangles that share the edge v0 v1, traversed in opposite directions.
\* A triangle of zero area divides by zero at shading.rs:208-210; the
\* infinities that follow are outside this arithmetic, so such triangles are
\* left out of the inputs.
InitRaster ==
    /\ zbuff = ZBuffer_new(WIDTH, HEIGHT, F32_MAX)
    /\ zcall = NoCall
    /\ fresh = Cells
    /\ FrameIdle
    /\ CanvasIdle
    /\ MatIdle
    /\ LookIdle
    /\ raster_pc = "input"
    /\ \E v0 \in DevPoints, v1 \in DevPoints, v2 \in DevPoints, v3 \in DevPoints :
          /\ triangle_area(v0, v1, v2) # RInt(0)
          /\ triangle_area(v1, v0, v3) # RInt(0)
          /\ vs_dc = << <<v0, v1, v2>>, <<v1, v0, v3>> >>
    /\ raster_out = <<>>

\* shading.rs:174-227 for the two triangles
Rasterize ==
    /\ raster_pc = "input"
    /\ raster_out' = [k \in 1..2 |->
           rasterize_triangle(vs_dc[k][1], vs_dc[k][2], vs_dc[k][3],
                              RInt(WIDTH), RInt(HEIGHT))]
    /\ raster_pc' = "done"
    /\ UNCHANGED <<matvars, zbuff, zvars, framevars, canvasvars, lookvars, algvars, vs_dc>>

NextRaster == Rasterize

SpecRaster == InitRaster /\ [][NextRaster]_vars

----------------------------------------------------------------------------
(* Vectors and matrices, src/src/data.rs.  Entries are exact rationals; the
   rounding of f32 is not modelled. *)

\* data.rs:647-657
Vec3__minus(self, right) ==
    [transposed |-> FALSE,
     data |-> [i \in 0..2 |-> RSub(self.data[i], right.data[i])]]

\* the cross product with its operands exchanged
Vec3_cross_exchanged(self, right) ==
    [data |-> [i \in 0..2 |->
         <<RSub(RMul(Y(right), Z(self)), RMul(Z(right), Y(self))),
           RSub(RMul(Z(right), X(self)), RMul(X(right), Z(self))),
           RSub(RMul(X(right), Y(self)), RMul(Y(right), X(self)))>>[i + 1]],
     transposed |-> FALSE]
\* data.rs:660-672
Vec3_cross(self, right) ==
    [data |-> [i \in 0..2 |->
         <<RSub(RMul(Y(self), Z(right)), RMul(Z(self), Y(right))),
           RSub(RMul(Z(self), X(right)), RMul(X(self), Z(right))),
           RSub(RMul(X(self), Y(right)), RMul(Y(self), X(right)))>>[i + 1]],
     transposed |-> FALSE]

\* data.rs:686-694
Vec3_get_length(self) ==
    LET x2 == RMul(self.data[0], self.data[0])
        y2 == RMul(self.data[1], self.data[1])
        z2 == RMul(self.data[2], self.data[2])
        l2 == RAdd(RAdd(x2, y2), z2)
    IN  RSqrt(l2)

\* data.rs:715-720
Vec3_normalize_(self) ==
    LET l == Vec3_get_length(self)
    IN  [self EXCEPT !.data = [i \in 0..2 |-> RDiv(self.data[i], l)]]

\* data.rs:724-727
Vec3_scalar_mul(self, s) ==
    Vec3_new_xyz(RMul(X(self), s), RMul(Y(self), s), RMul(Z(self), s))

\* data.rs:1005-1008
Vec4_scalar_mul(self, s) ==
    Vec4_new_xyzw(RMul(X(self), s), RMul(Y(self), s), RMul(Z(self), s),
                  RMul(W(self), s))

\* data.rs:1010-1015
Vec4_scalar_mul_(self, s) ==
    [self EXCEPT !.data = [i \in 0..3 |-> RMul(self.data[i], s)]]

\* data.rs:710-713
Vec3_normalize(self) ==
    LET l == Vec3_get_length(self)
    IN  Vec3_new_xyz(RDiv(self.data[0], l), RDiv(self.data[1], l),
                     RDiv(self.data[2], l))

\* data.rs:973-982
Vec4_get_length(self) ==
    LET x2 == RMul(self.data[0], self.data[0])
        y2 == RMul(self.data[1], self.data[1])
        z2 == RMul(self.data[2], self.data[2])
        w2 == RMul(self.data[3], self.data[3])
        l2 == RAdd(RAdd(RAdd(x2, y2), z2), w2)
    IN  RSqrt(l2)

\* data.rs:985-993
Vec4_normalize(self) ==
    LET l == Vec4_get_length(self)
    IN  Vec4_new_xyzw(RDiv(self.data[0], l), RDiv(self.data[1], l),
                      RDiv(self.data[2], l), RDiv(self.data[3], l))

\* data.rs:995-1001
Vec4_normalize_(self) ==
    LET l == Vec4_get_length(self)
    IN  [self EXCEPT !.data = [i \in 0..3 |-> RDiv(self.data[i], l)]]

\* data.rs:911-916
Vec4_add_(self, other) ==
    [self EXCEPT !.data = [i \in 0..3 |-> RAdd(self.data[i], other.data[i])]]

\* data.rs:99-110
Mat4_identity ==
    [transposed |-> FALSE,
     data |-> [r \in 0..3 |-> [c \in 0..3 |->
                  IF r = c THEN RInt(1) ELSE RInt(0)]]]

\* data.rs:246-253
Mat4__get_entry(self, row, col) ==
    IF self.transposed THEN self.data[col][row] ELSE self.data[row][col]

\* data.rs:255-261
Mat4__set_entry(self, row, col, val) ==
    IF self.transposed
    THEN [self EXCEPT !.data[col][row] = val]
    ELSE [self EXCEPT !.data[row][col] = val]

\* data.rs:119-124
Mat4__set_row(self, row, val) ==
    Mat4__set_entry(
        Mat4__set_entry(
            Mat4__set_entry(
                Mat4__set_entry(self, row, 0, X(val)),
                row, 1, Y(val)),
            row, 2, Z(val)),
        row, 3, W(val))

\* data.rs:136-141
Mat4__set_column(self, column, val) ==
    Mat4__set_entry(
        Mat4__set_entry(
            Mat4__set_entry(
                Mat4__set_entry(self, 0, column, X(val)),
                1, column, Y(val)),
            2, column, Z(val)),
        3, column, W(val))

\* data.rs:143-151
Mat4__get_column(self, column) ==
    Vec4_new_xyzw(Mat4__get_entry(self, 0, column),
                  Mat4__get_entry(self, 1, column),
                  Mat4__get_entry(self, 2, column),
                  Mat4__get_entry(self, 3, column))

\* err.rs:26-43
OutOfBoundError_new(range, got) == [range |-> range, got |-> got]

Ok(v) == [ok |-> TRUE, val |-> v]
Err(e) == [ok |-> FALSE, err |-> e]

\* Vec3::get reporting the size in place of the largest index
Vec3_get_reporting_size(self, index) ==
    IF index > 2
    THEN Err(OutOfBoundError_new(<<3, 0>>, <<index, 0>>))
    ELSE Ok(self.data[index])
\* data.rs:553-559
Vec3_get(self, index) ==
    IF index > 2
    THEN Err(OutOfBoundError_new(<<2, 0>>, <<index, 0>>))
    ELSE Ok(self.data[index])

\* data.rs:561-568; set returns the vector afterwards and the result
Vec3_set(self, index, val) ==
    IF index > 2
    THEN [self |-> self, ret |-> Err(OutOfBoundError_new(<<2, 0>>, <<index, 0>>))]
    ELSE [self |-> [self EXCEPT !.data[index] = val], ret |-> Ok(<<>>)]

\* data.rs:845-851
Vec4_get(self, index) ==
    IF index > 3
    THEN Err(OutOfBoundError_new(<<3, 0>>, <<index, 0>>))
    ELSE Ok(self.data[index])

\* data.rs:853-860
Vec4_set(self, index, val) ==
    IF index > 3
    THEN [self |-> self, ret |-> Err(OutOfBoundError_new(<<3, 0>>, <<index, 0>>))]
    ELSE [self |-> [self EXCEPT !.data[index] = val], ret |-> Ok(<<>>)]

\* data.rs:441-451
Mat3_get_entry(self, row, col) ==
    IF row > 2 \/ col > 2
    THEN Err(OutOfBoundError_new(<<2, 2>>, <<row, col>>))
    ELSE Ok(IF self.transposed THEN self.data[col][row] ELSE self.data[row][col])

\* data.rs:453-464
Mat3_set_entry(self, row, col, val) ==
    IF row >= 3 \/ col >= 3
    THEN [self |-> self,
          ret |-> Err(OutOfBoundError_new(<<2, 2>>, <<row, col>>))]
    ELSE [self |-> IF self.transposed
                   THEN [self EXCEPT !.data[col][row] = val]
                   ELSE [self EXCEPT !.data[row][col] = val],
          ret |-> Ok(<<>>)]

\* data.rs:216-226
Mat4_get_entry(self, row, col) ==
    IF row > 3 \/ col > 3
    THEN Err(OutOfBoundError_new(<<3, 3>>, <<row, col>>))
    ELSE Ok(IF self.transposed THEN self.data[col][row] ELSE self.data[row][col])

\* data.rs:228-239
Mat4_set_entry(self, row, col, val) ==
    IF row >= 4 \/ col >= 4
    THEN [self |-> self,
          ret |-> Err(OutOfBoundError_new(<<3, 3>>, <<row, col>>))]
    ELSE [self |-> IF self.transposed
                   THEN [self EXCEPT !.data[col][row] = val]
                   ELSE [self EXCEPT !.data[row][col] = val],
          ret |-> Ok(<<>>)]

\* err.rs:4-18
DimensionMismatchError_new(expected_shape, got) ==
    [expected_shape |-> expected_shape, got |-> got]

\* the apparent shape of a vector of n components, data.rs:586-587
Shape(v, n) == IF v.transposed THEN <<1, n>> ELSE <<n, 1>>

\* data.rs:583-600
Vec3_add(self, other) ==
    IF self.transposed # other.transposed
    THEN Err(DimensionMismatchError_new(Shape(self, 3), Shape(other, 3)))
    ELSE Ok([data |-> [i \in 0..2 |-> RAdd(self.data[i], other.data[i])],
             transposed |-> self.transposed])

\* data.rs:602-606
Vec3_add_(self, other) ==
    [self EXCEPT !.data = [i \in 0..2 |-> RAdd(self.data[i], other.data[i])]]

\* data.rs:608-618
Vec3__add(self, v) ==
    [transposed |-> FALSE,
     data |-> [i \in 0..2 |-> RAdd(self.data[i], v.data[i])]]

\* data.rs:622-639
Vec3_minus(self, right) ==
    IF self.transposed # right.transposed
    THEN Err(DimensionMismatchError_new(Shape(self, 3), Shape(right, 3)))
    ELSE Ok([data |-> [i \in 0..2 |-> RSub(self.data[i], right.data[i])],
             transposed |-> self.transposed])

\* data.rs:641-645
Vec3_minus_(self, right) ==
    [self EXCEPT !.data = [i \in 0..2 |-> RSub(self.data[i], right.data[i])]]

\* data.rs:878-896
Vec4_add(self, other) ==
    IF self.transposed # other.transposed
    THEN Err(DimensionMismatchError_new(Shape(self, 4), Shape(other, 4)))
    ELSE Ok([data |-> [i \in 0..3 |-> RAdd(self.data[i], other.data[i])],
             transposed |-> self.transposed])

\* data.rs:898-909
Vec4__add(self, v) ==
    [transposed |-> FALSE,
     data |-> [i \in 0..3 |-> RAdd(self.data[i], v.data[i])]]

\* data.rs:920-938
Vec4_minus(self, right) ==
    IF self.transposed # right.transposed
    THEN Err(DimensionMismatchError_new(Shape(self, 4), Shape(right, 4)))
    ELSE Ok([data |-> [i \in 0..3 |-> RSub(self.data[i], right.data[i])],
             transposed |-> self.transposed])

\* data.rs:940-945
Vec4_minus_(self, right) ==
    [self EXCEPT !.data = [i \in 0..3 |-> RSub(self.data[i], right.data[i])]]

\* data.rs:947-958
Vec4__minus(self, right) ==
    [transposed |-> FALSE,
     data |-> [i \in 0..3 |-> RSub(self.data[i], right.data[i])]]

\* a call that does not return: the panic of unimplemented!()
Panic(message) == [panic |-> message]

\* an inverse that returns its argument
Mat4_inverse_returning_self(self) == self
\* data.rs:315-319
Mat4_inverse(self) == Panic("not implemented")

\* data.rs:540-544
Mat3_inverse(self) == Panic("not implemented")

\* Mat4::transpose that exchanges the stored entries as well
Mat4_transpose_data_too(self) ==
    [transposed |-> ~self.transposed,
     data |-> [r \in 0..3 |-> [c \in 0..3 |-> self.data[c][r]]]]
\* data.rs:322-327
Mat4_transpose(self) ==
    [transposed |-> ~self.transposed, data |-> self.data]

\* data.rs:329-331
Mat4_transpose_(self) == [self EXCEPT !.transposed = ~self.transposed]

\* data.rs:126-134
Mat4__get_row(self, row) ==
    Vec4_new_xyzw(Mat4__get_entry(self, row, 0),
                  Mat4__get_entry(self, row, 1),
                  Mat4__get_entry(self, row, 2),
                  Mat4__get_entry(self, row, 3))

\* data.rs:527-532
Mat3_transpose(self) ==
    [transposed |-> ~self.transposed, data |-> self.data]

\* data.rs:534-536
Mat3_transpose_(self) == [self EXCEPT !.transposed = ~self.transposed]

\* data.rs:473-479
Mat3__get_entry(self, row, col) ==
    IF self.transposed THEN self.data[col][row] ELSE self.data[row][col]

\* data.rs:362-369
Mat3__get_row(self, row) ==
    Vec3_new_xyz(Mat3__get_entry(self, row, 0),
                 Mat3__get_entry(self, row, 1),
                 Mat3__get_entry(self, row, 2))

\* data.rs:377-384
Mat3__get_column(self, column) ==
    Vec3_new_xyz(Mat3__get_entry(self, 0, column),
                 Mat3__get_entry(self, 1, column),
                 Mat3__get_entry(self, 2, column))

\* data.rs:397-423
Mat3_dot_mat(self, other) ==
    [transposed |-> FALSE,
     data |-> [row \in 0..2 |-> [col \in 0..2 |->
         RAdd(RAdd(RAdd(RInt(0),
             RMul(Mat3__get_entry(self, row, 0), Mat3__get_entry(other, 0, col))),
             RMul(Mat3__get_entry(self, row, 1), Mat3__get_entry(other, 1, col))),
             RMul(Mat3__get_entry(self, row, 2), Mat3__get_entry(other, 2, col)))]]]

\* data.rs:426-439
Mat3_mat_vec_dot(self, rhs) ==
    [transposed |-> FALSE,
     data |-> [r \in 0..2 |->
         RAdd(RAdd(RMul(Mat3__get_entry(self, r, 0), X(rhs)),
                   RMul(Mat3__get_entry(self, r, 1), Y(rhs))),
              RMul(Mat3__get_entry(self, r, 2), Z(rhs)))]]

\* data.rs:162-188
Mat4_dot_mat(self, other) ==
    [transposed |-> FALSE,
     data |-> [row \in 0..3 |-> [col \in 0..3 |->
         RAdd(RAdd(RAdd(RAdd(RInt(0),
             RMul(Mat4__get_entry(self, row, 0), Mat4__get_entry(other, 0, col))),
             RMul(Mat4__get_entry(self, row, 1), Mat4__get_entry(other, 1, col))),
             RMul(Mat4__get_entry(self, row, 2), Mat4__get_entry(other, 2, col))),
             RMul(Mat4__get_entry(self, row, 3), Mat4__get_entry(other, 3, col)))]]]

\* data.rs:191-213
Mat4_mat_vec_dot(self, rhs) ==
    [transposed |-> FALSE,
     data |-> [r \in 0..3 |->
         RAdd(RAdd(RAdd(RMul(Mat4__get_entry(self, r, 0), X(rhs)),
                        RMul(Mat4__get_entry(self, r, 1), Y(rhs))),
                   RMul(Mat4__get_entry(self, r, 2), Z(rhs))),
              RMul(Mat4__get_entry(self, r, 3), W(rhs)))]]

----------------------------------------------------------------------------
(* The camera transform, src/src/transformations.rs *)

\* translate_obj without the matrix's own fourth column
translate_obj_without_m3(left_mat, translation) ==
    LET m0t0 == Vec4_scalar_mul(Mat4__get_column(left_mat, 0), X(translation))
        m1t1 == Vec4_scalar_mul(Mat4__get_column(left_mat, 1), Y(translation))
        m2t2 == Vec4_scalar_mul(Mat4__get_column(left_mat, 2), Z(translation))
    IN  Mat4__set_column(left_mat, 3, Vec4_add_(Vec4_add_(m0t0, m1t1), m2t2))
\* transformations.rs:8-22
translate_obj(left_mat, translation) ==
    LET m0 == Mat4__get_column(left_mat, 0)
        m1 == Mat4__get_column(left_mat, 1)
        m2 == Mat4__get_column(left_mat, 2)
        m3 == Mat4__get_column(left_mat, 3)
        m0t0 == Vec4_scalar_mul(m0, X(translation))
        m1t1 == Vec4_scalar_mul(m1, Y(translation))
        m2t2 == Vec4_scalar_mul(m2, Z(translation))
        sum == Vec4_add_(Vec4_add_(Vec4_add_(m0t0, m1t1), m2t2), m3)
    IN  Mat4__set_column(left_mat, 3, sum)

\* an angle is known by its cosine and sine, f32::cos and f32::sin of
\* transformations.rs:27-29
Cos(angle_radian) == angle_radian.cos
Sin(angle_radian) == angle_radian.sin

\* rotate_obj with the rotation on the left of the product
rotate_obj_premultiplied(transformation, angle_radian, axis) ==
    LET cos == Cos(angle_radian)
        one_cos == RSub(RInt(1), cos)
        sin == Sin(angle_radian)
        n == Vec3_normalize_(axis)
        x == X(n)
        y == Y(n)
        z == Z(n)
        rotate_mat ==
            [transposed |-> FALSE,
             data |-> [r \in 0..3 |-> [c \in 0..3 |->
                 << <<RAdd(cos, RMul(RMul(one_cos, x), x)),
                      RSub(RMul(RMul(one_cos, x), y), RMul(sin, z)),
                      RAdd(RMul(RMul(one_cos, x), z), RMul(sin, y)),
                      RInt(0)>>,
                    <<RAdd(RMul(RMul(one_cos, y), x), RMul(sin, z)),
                      RAdd(cos, RMul(RMul(one_cos, y), y)),
                      RSub(RMul(RMul(one_cos, y), z), RMul(sin, x)),
                      RInt(0)>>,
                    <<RSub(RMul(RMul(one_cos, z), x), RMul(sin, y)),
                      RAdd(RMul(RMul(one_cos, z), y), RMul(sin, x)),
                      RAdd(cos, RMul(RMul(one_cos, z), z)),
                      RInt(0)>>,
                    <<RInt(0), RInt(0), RInt(0), RInt(1)>> >>[r + 1][c + 1]]]]
    IN  Mat4_dot_mat(rotate_mat, transformation)
\* transformations.rs:25-49
rotate_obj(transformation, angle_radian, axis) ==
    LET cos == Cos(angle_radian)
        one_cos == RSub(RInt(1), cos)
        sin == Sin(angle_radian)
        n == Vec3_normalize_(axis)
        x == X(n)
        y == Y(n)
        z == Z(n)
        m00 == Mat4__set_entry(Mat4_identity, 0, 0,
                   RAdd(cos, RMul(RMul(one_cos, x), x)))
        m01 == Mat4__set_entry(m00, 0, 1,
                   RSub(RMul(RMul(one_cos, x), y), RMul(sin, z)))
        m02 == Mat4__set_entry(m01, 0, 2,
                   RAdd(RMul(RMul(one_cos, x), z), RMul(sin, y)))
        m10 == Mat4__set_entry(m02, 1, 0,
                   RAdd(RMul(RMul(one_cos, y), x), RMul(sin, z)))
        m11 == Mat4__set_entry(m10, 1, 1,
                   RAdd(cos, RMul(RMul(one_cos, y), y)))
        m12 == Mat4__set_entry(m11, 1, 2,
                   RSub(RMul(RMul(one_cos, y), z), RMul(sin, x)))
        m20 == Mat4__set_entry(m12, 2, 0,
                   RSub(RMul(RMul(one_cos, z), x), RMul(sin, y)))
        m21 == Mat4__set_entry(m20, 2, 1,
                   RAdd(RMul(RMul(one_cos, z), y), RMul(sin, x)))
        rotate_mat == Mat4__set_entry(m21, 2, 2,
                   RAdd(cos, RMul(RMul(one_cos, z), z)))
    IN  Mat4_dot_mat(transformation, rotate_mat)

\* transformations.rs:61-66 and 80-85: the camera's basis right, camera_up, f
camera_basis(eye, center, up) ==
    LET look_at_direction == Vec3_normalize_(Vec3__minus(eye, center))
        right == Vec3_normalize_(Vec3_cross(look_at_direction, up))
        camera_up == Vec3_normalize_(Vec3_cross(right, look_at_direction))
    IN  [right |-> right, camera_up |-> camera_up, f |-> look_at_direction]

\* inverse_look_at with the basis written into the rows
inverse_look_at_rows(eye, center, up) ==
    LET b == camera_basis(eye, center, up)
        m == Mat4__set_row(
                 Mat4__set_row(
                     Mat4__set_row(Mat4_identity, 0, Vec4_from(b.right, RInt(0))),
                     1, Vec4_from(b.camera_up, RInt(0))),
                 2, Vec4_from(b.f, RInt(0)))
    IN  Mat4_dot_mat(translate_obj(Mat4_identity, eye), m)
\* transformations.rs:59-77
inverse_look_at(eye, center, up) ==
    LET b == camera_basis(eye, center, up)
        m == Mat4__set_column(
                 Mat4__set_column(
                     Mat4__set_column(Mat4_identity, 0, Vec4_from(b.right, RInt(0))),
                     1, Vec4_from(b.camera_up, RInt(0))),
                 2, Vec4_from(b.f, RInt(0)))
        translate_mat == translate_obj(Mat4_identity, eye)
    IN  Mat4_dot_mat(translate_mat, m)

\* look_at translating by eye instead of by its negation
look_at_plus_eye(eye, center, up) ==
    LET b == camera_basis(eye, center, up)
        m == Mat4__set_row(
                 Mat4__set_row(
                     Mat4__set_row(Mat4_identity, 0, Vec4_from(b.right, RInt(0))),
                     1, Vec4_from(b.camera_up, RInt(0))),
                 2, Vec4_from(b.f, RInt(0)))
    IN  translate_obj(m, eye)
\* transformations.rs:79-95
look_at(eye, center, up) ==
    LET b == camera_basis(eye, center, up)
        m == Mat4__set_row(
                 Mat4__set_row(
                     Mat4__set_row(Mat4_identity, 0, Vec4_from(b.right, RInt(0))),
                     1, Vec4_from(b.camera_up, RInt(0))),
                 2, Vec4_from(b.f, RInt(0)))
    IN  translate_obj(m, Vec3_scalar_mul(eye, RInt(-1)))

\* shading.rs:17-27
Camera_new(pos_wc, gaze_center_wc, up_wc) ==
    [pos_wc |-> pos_wc, gaze_center_wc |-> gaze_center_wc, up_wc |-> up_wc,
     transformation |-> look_at(pos_wc, gaze_center_wc, up_wc),
     inverse_transformation |->
         inverse_look_at(pos_wc, gaze_center_wc, up_wc)]

\* main.rs:274 and 285: the world-space normal under the normal matrix
transformed_normal(cam, n_wc) ==
    LET normal_mat == Mat4_transpose(cam.inverse_transformation)
    IN  Mat4_mat_vec_dot(normal_mat, n_wc.vec)

\* main.rs:274, 284-291: the closure applied to one world-space normal
normal_ec(cam, n_wc) ==
    [vertex_idx |-> n_wc.vertex_idx,
     vec |-> Vec4_normalize_(transformed_normal(cam, n_wc))]

\* the squared length of an integer vector
Norm2(v) == X(v)[1] * X(v)[1] + Y(v)[1] * Y(v)[1] + Z(v)[1] * Z(v)[1]

\* the two lengths look_at takes a square root for are rational, so that the
\* exact arithmetic can follow the computation
ExactlyRooted(eye, center, up) ==
    /\ IsSquare(Norm2(Vec3__minus(eye, center)))
    /\ IsSquare(Norm2(Vec3_cross(Vec3__minus(eye, center), up)))

GridPoints ==
    {Vec3_new_xyz(RInt(x), RInt(y), RInt(z)) :
        <<x, y, z>> \in (0..MaxCoord) \X (0..MaxCoord) \X (0..MaxCoord)}

CenterPoints ==
    {Vec3_new_xyz(RInt(x), RInt(y), RInt(z)) :
        <<x, y, z>> \in (0..MaxCenter) \X (0..MaxCenter) \X (0..MaxCenter)}

UpVectors ==
    {Vec3_new_xyz(RInt(0), RInt(1), RInt(0)),
     Vec3_new_xyz(RInt(1), RInt(0), RInt(0)),
     Vec3_new_xyz(RInt(0), RInt(0), RInt(-2)),
     Vec3_new_xyz(RInt(0), RInt(3), RInt(4))}

\* the points the matrices are applied to: the eye, the centre and others
ProbePoints(cam) ==
    {Vec4_from(cam.eye, RInt(1)), Vec4_from(cam.center, RInt(1)),
     Vec4_new_xyzw(RInt(1), RInt(-2), RInt(3), RInt(1)),
     Vec4_new_xyzw(Rat(1, 2), RInt(0), Rat(-5, 3), RInt(1))}

InitLookAt ==
    /\ zbuff = ZBuffer_new(WIDTH, HEIGHT, F32_MAX)
    /\ zcall = NoCall
    /\ fresh = Cells
    /\ FrameIdle
    /\ CanvasIdle
    /\ MatIdle
    /\ RasterIdle
    /\ CallIdle
    /\ look_pc = "input"
    /\ \E eye \in GridPoints, center \in CenterPoints, up \in UpVectors :
          /\ ExactlyRooted(eye, center, up)
          /\ camera = [eye |-> eye, center |-> center, up |-> up]
    /\ world_p = <<>>
    /\ view_mat = <<>>
    /\ eye_p = <<>>
    /\ inverse_mat = <<>>
    /\ product_mat = <<>>
    /\ back_p = <<>>

\* transformations.rs:79-95, and the matrix applied to a point
ApplyLookAt ==
    /\ look_pc = "input"
    /\ \E p \in ProbePoints(camera) :
          /\ world_p' = p
          /\ view_mat' = look_at(camera.eye, camera.center, camera.up)
          /\ eye_p' = Mat4_mat_vec_dot(view_mat', p)
    /\ look_pc' = "viewed"
    /\ UNCHANGED <<matvars, zbuff, zvars, framevars, canvasvars, rastervars, algvars, camera, inverse_mat,
                   product_mat, back_p>>

\* transformations.rs:59-77, and the matrix applied to the eye-space point
ApplyInverseLookAt ==
    /\ look_pc = "viewed"
    /\ inverse_mat' = inverse_look_at(camera.eye, camera.center, camera.up)
    /\ product_mat' = Mat4_dot_mat(inverse_mat', view_mat)
    /\ back_p' = Mat4_mat_vec_dot(inverse_mat', eye_p)
    /\ look_pc' = "restored"
    /\ UNCHANGED <<matvars, zbuff, zvars, framevars, canvasvars, rastervars, algvars, camera, world_p,
                   view_mat, eye_p>>

NextLookAt == ApplyLookAt \/ ApplyInverseLookAt

SpecLookAt == InitLookAt /\ [][NextLookAt]_vars

----------------------------------------------------------------------------
(* Colour conversion, src/src/main.rs:467-493 *)

\* `as u8`: truncation toward zero, saturating at 0 and 255, NaN to 0
AsU8(p) ==
    IF p[2] = 0 \/ p[1] < 0 THEN 0
    ELSE IF p[1] \div p[2] > 255 THEN 255 ELSE p[1] \div p[2]

\* data.rs:729-733
Vec3_scalar_mul_(self, s) ==
    [self EXCEPT !.data = [i \in 0..2 |-> RMul(self.data[i], s)]]

\* main.rs:484-493
clamp_float(x) ==
    IF RLt(x, RInt(0)) THEN RInt(0)
    ELSE IF RGt(x, RInt(1)) THEN RInt(1)
    ELSE x

\* main.rs:477-482
clamp_(color) ==
    [color EXCEPT !.data = [i \in 0..2 |-> clamp_float(color.data[i])]]

\* to_color without the rounding: the cast truncates
to_color_truncating(color) ==
    LET scaled == Vec3_scalar_mul_(clamp_(color), RInt(255))
    IN  <<AsU8(scaled.data[0]), AsU8(scaled.data[1]), AsU8(scaled.data[2])>>
\* main.rs:467-475: the three u8 channels of the Color
to_color(color) ==
    LET scaled == Vec3_scalar_mul_(clamp_(color), RInt(255))
        x == RRound(scaled.data[0])
        y == RRound(scaled.data[1])
        z == RRound(scaled.data[2])
    IN  <<AsU8(x), AsU8(y), AsU8(z)>>

----------------------------------------------------------------------------
(* Object-space vertex extraction, src/src/main.rs:29-48.  mesh.positions is
   a function on 0 .. len - 1; done is the order in which the parallel
   workers finish, a sequence of slots. *)

\* main.rs:31: (0..len).step_by(3), slot k holds 3k
position_idxs(positions) ==
    [k \in 0..(((Cardinality(DOMAIN positions) + 2) \div 3) - 1) |-> 3 * k]

\* main.rs:33-43: the closure applied to one element of idxs
position_vertex(positions, i) ==
    [position |-> Vec4_new_xyzw(positions[i], positions[i + 1],
                                positions[i + 2], RInt(1)),
     idx |-> i \div 3]

\* main.rs:32-44: the workers fill the slots as they finish; the indexed
\* collect keeps each result in the slot of its input
RECURSIVE par_map_collect(_, _, _)
par_map_collect(positions, done, j) ==
    IF j = 0 THEN <<>>
    ELSE LET slot == done[j]
         IN  (slot :> position_vertex(positions, position_idxs(positions)[slot]))
                 @@ par_map_collect(positions, done, j - 1)

\* main.rs:45: sort_by on idx, stable; v is a function on 0 .. n - 1
RECURSIVE InsertByIdx(_, _)
InsertByIdx(sorted, e) ==
    IF sorted = <<>> THEN <<e>>
    ELSE IF sorted[Len(sorted)].idx <= e.idx THEN Append(sorted, e)
    ELSE Append(InsertByIdx(SubSeq(sorted, 1, Len(sorted) - 1), e),
                sorted[Len(sorted)])

RECURSIVE SortedPrefix(_, _)
SortedPrefix(v, n) ==
    IF n = 0 THEN <<>> ELSE InsertByIdx(SortedPrefix(v, n - 1), v[n - 1])

sort_by_idx(v) ==
    LET n == Cardinality(DOMAIN v)
        sorted == SortedPrefix(v, n)
    IN  [k \in 0..(n - 1) |-> sorted[k + 1]]

\* the vertices in the order the workers finished, left unsorted
get_position_os_as_finished(positions, done) ==
    [k \in 0..(Len(done) - 1) |->
        position_vertex(positions, position_idxs(positions)[done[k + 1]])]
\* main.rs:29-48
get_position_os(positions, done) ==
    sort_by_idx(par_map_collect(positions, done, Len(done)))

----------------------------------------------------------------------------
(* Vertex normals, src/src/main.rs:50-147.  mesh.indices is a function on
   0 .. len - 1 with three entries per face; the adjacency map is a function
   from the vertex indices that occur in it. *)

\* main.rs:59-68: the entry of key is created with pair, or grows by it
adj_push(map, key, pair) ==
    IF key \in DOMAIN map THEN [map EXCEPT ![key] = Append(@, pair)]
    ELSE map @@ (key :> <<pair>>)

\* main.rs:53-92: the loop from face i \div 3 on
RECURSIVE adj_vertices_from(_, _, _)
adj_vertices_from(indices, i, map) ==
    IF i >= Cardinality(DOMAIN indices) THEN map
    ELSE LET idx1 == indices[i]
             idx2 == indices[i + 1]
             idx3 == indices[i + 2]
         IN  adj_vertices_from(indices, i + 3,
                 adj_push(adj_push(adj_push(map, idx1, <<idx2, idx3>>),
                                   idx2, <<idx3, idx1>>),
                          idx3, <<idx1, idx2>>))

\* main.rs:50-94
get_adj_vertices(indices) == adj_vertices_from(indices, 0, <<>>)

\* ScalarDiv::scalar_div_ for Vec4: every component divided by s
Vec4_scalar_div_(self, s) ==
    [self EXCEPT !.data = [i \in 0..3 |-> RDiv(self.data[i], s)]]

\* main.rs:119-120, 124-130: the position of a vertex, divided by its w
divided_position(vertices, vertex) ==
    Vec3_from(Vec4_scalar_div_(vertices[vertex].position,
                               W(vertices[vertex].position)))

\* main.rs:122-137: the loop over the adjacent pairs of a vertex at v_p
RECURSIVE accumulate_normals(_, _, _, _)
accumulate_normals(vertices, v_p, adj_point_vertices, vn) ==
    IF adj_point_vertices = <<>> THEN vn
    ELSE LET adj_vertices == Head(adj_point_vertices)
             v1_p == divided_position(vertices, adj_vertices[1])
             v2_p == divided_position(vertices, adj_vertices[2])
             v_v1 == Vec3__minus(v1_p, v_p)
             v_v2 == Vec3__minus(v2_p, v_p)
             n == Vec3_normalize_(Vec3_cross(v_v1, v_v2))
         IN  accumulate_normals(vertices, v_p, Tail(adj_point_vertices),
                                Vec3_add_(vn, n))

\* main.rs:116-143: the closure applied to one entry of the map
vertex_normal(vertices, vertex, adj_point_vertices) ==
    LET v_p == divided_position(vertices, vertex)
        zero == Vec3_new_xyz(RInt(0), RInt(0), RInt(0))
        vn == Vec3_normalize_(
                  accumulate_normals(vertices, v_p, adj_point_vertices, zero))
    IN  [vertex_idx |-> vertex, vec |-> Vec4_from(vn, RInt(0))]

\* main.rs:145: sort_by on vertex_idx
RECURSIVE InsertByVertexIdx(_, _)
InsertByVertexIdx(sorted, e) ==
    IF sorted = <<>> THEN <<e>>
    ELSE IF sorted[Len(sorted)].vertex_idx <= e.vertex_idx
         THEN Append(sorted, e)
    ELSE Append(InsertByVertexIdx(SubSeq(sorted, 1, Len(sorted) - 1), e),
                sorted[Len(sorted)])

RECURSIVE sort_by_vertex_idx(_)
sort_by_vertex_idx(normals) ==
    IF normals = <<>> THEN <<>>
    ELSE InsertByVertexIdx(
             sort_by_vertex_idx(SubSeq(normals, 1, Len(normals) - 1)),
             normals[Len(normals)])

\* main.rs:114-147; order is the order in which the parallel iterator of the
\* map yields its entries.  The result is a function on 0 .. len - 1.
get_normals(vertices, adj_vertices_map, order) ==
    LET normals == [k \in 1..Len(order) |->
                       vertex_normal(vertices, order[k],
                                     adj_vertices_map[order[k]])]
        sorted == sort_by_vertex_idx(normals)
    IN  [k \in 0..(Len(sorted) - 1) |-> sorted[k + 1]]

----------------------------------------------------------------------------
(* Calls of the vector and matrix library, one per behaviour: call records
   the function called, its arguments and what it returned *)

\* a family of 4x4 matrices with small integer entries, not symmetric
TestMat4(a, b, transposed) ==
    [transposed |-> transposed,
     data |-> [r \in 0..3 |-> [c \in 0..3 |->
                  RInt(((a * r + b * c + (a + 1) * r * c + a + b) % 5) - 2)]]]

Mat4s ==
    {TestMat4(a, b, tr) : <<a, b, tr>> \in (0..MaxGen) \X (0..MaxGen) \X BOOLEAN}

Translations ==
    {Vec3_new_xyz(RInt(x), RInt(y), RInt(z)) :
        <<x, y, z>> \in ((-MaxT)..MaxT) \X ((-MaxT)..MaxT) \X ((-MaxT)..MaxT)}

InitCalls ==
    /\ zbuff = ZBuffer_new(WIDTH, HEIGHT, F32_MAX)
    /\ zcall = NoCall
    /\ fresh = Cells
    /\ FrameIdle
    /\ CanvasIdle
    /\ MatIdle
    /\ RasterIdle
    /\ LookIdle

\* transformations.rs:8-22
CallTranslateObj ==
    /\ call.op = "off"
    /\ \E m \in Mat4s, t \in Translations :
          call' = [op |-> "translate_obj", left_mat |-> m, translation |-> t,
                   result |-> translate_obj(m, t)]
    /\ UNCHANGED <<matvars, zbuff, zvars, framevars, canvasvars, rastervars, lookvars>>

\* angles whose cosine and sine are rational; the first four are the
\* quarter turns
Angles ==
    {[cos |-> RInt(1), sin |-> RInt(0)], [cos |-> RInt(0), sin |-> RInt(1)],
     [cos |-> RInt(-1), sin |-> RInt(0)], [cos |-> RInt(0), sin |-> RInt(-1)],
     [cos |-> Rat(3, 5), sin |-> Rat(4, 5)],
     [cos |-> Rat(-4, 5), sin |-> Rat(3, 5)]}

\* axes of rational length, and the zero axis
Axes ==
    {Vec3_new_xyz(RInt(1), RInt(0), RInt(0)),
     Vec3_new_xyz(RInt(0), RInt(1), RInt(0)),
     Vec3_new_xyz(RInt(0), RInt(0), RInt(1)),
     Vec3_new_xyz(RInt(0), RInt(-2), RInt(0)),
     Vec3_new_xyz(RInt(0), RInt(3), RInt(4)),
     Vec3_new_xyz(RInt(1), RInt(2), RInt(-2)),
     Vec3_new_xyz(RInt(0), RInt(0), RInt(0))}

\* transformations.rs:25-49
CallRotateObj ==
    /\ call.op = "off"
    /\ \E m \in Mat4s \cup {Mat4_identity}, angle \in Angles, axis \in Axes :
          call' = [op |-> "rotate_obj", transformation |-> m,
                   angle_radian |-> angle, axis |-> axis,
                   result |-> rotate_obj(m, angle, axis)]
    /\ UNCHANGED <<matvars, zbuff, zvars, framevars, canvasvars, rastervars, lookvars>>

\* row and column vectors with small integer components
Vec3s ==
    {[transposed |-> tr, data |-> t.data] :
        <<t, tr>> \in Translations \X BOOLEAN}

\* data.rs:660-672
CallCross ==
    /\ call.op = "off"
    /\ \E a \in Vec3s, b \in Vec3s :
          call' = [op |-> "cross", self |-> a, right |-> b,
                   result |-> Vec3_cross(a, b)]
    /\ UNCHANGED <<matvars, zbuff, zvars, framevars, canvasvars, rastervars, lookvars>>

Vec4s ==
    {[transposed |-> tr, data |-> [i \in 0..3 |-> RInt(k * i - 1)]] :
        <<k, tr>> \in (0..MaxGen) \X BOOLEAN}

\* a family of 3x3 matrices with small integer entries, not symmetric
TestMat3(a, b, transposed) ==
    [transposed |-> transposed,
     data |-> [r \in 0..2 |-> [c \in 0..2 |->
                  RInt(((a * r + b * c + (a + 1) * r * c + a + b) % 5) - 2)]]]

Mat3s ==
    {TestMat3(a, b, tr) : <<a, b, tr>> \in (0..MaxGen) \X (0..MaxGen) \X BOOLEAN}

\* indices are usize values, up to MaxIndex here
Indices == 0..MaxIndex

\* the values written by the setters
SetVals == {RInt(7), Rat(-1, 2)}

\* data.rs:553-559
CallVec3Get ==
    /\ call.op = "off"
    /\ \E v \in Vec3s, index \in Indices :
          call' = [op |-> "Vec3::get", self |-> v, index |-> index,
                   ret |-> Vec3_get(v, index)]
    /\ UNCHANGED <<matvars, zbuff, zvars, framevars, canvasvars, rastervars, lookvars>>

\* data.rs:561-568
CallVec3Set ==
    /\ call.op = "off"
    /\ \E v \in Vec3s, index \in Indices, val \in SetVals :
          call' = [op |-> "Vec3::set", self |-> v, index |-> index,
                   val |-> val, after |-> Vec3_set(v, index, val).self,
                   ret |-> Vec3_set(v, index, val).ret]
    /\ UNCHANGED <<matvars, zbuff, zvars, framevars, canvasvars, rastervars, lookvars>>

\* data.rs:845-851
CallVec4Get ==
    /\ call.op = "off"
    /\ \E v \in Vec4s, index \in Indices :
          call' = [op |-> "Vec4::get", self |-> v, index |-> index,
                   ret |-> Vec4_get(v, index)]
    /\ UNCHANGED <<matvars, zbuff, zvars, framevars, canvasvars, rastervars, lookvars>>

\* data.rs:853-860
CallVec4Set ==
    /\ call.op = "off"
    /\ \E v \in Vec4s, index \in Indices, val \in SetVals :
          call' = [op |-> "Vec4::set", self |-> v, index |-> index,
                   val |-> val, after |-> Vec4_set(v, index, val).self,
                   ret |-> Vec4_set(v, index, val).ret]
    /\ UNCHANGED <<matvars, zbuff, zvars, framevars, canvasvars, rastervars, lookvars>>

\* data.rs:441-451
CallMat3GetEntry ==
    /\ call.op = "off"
    /\ \E m \in Mat3s, row \in Indices, col \in Indices :
          call' = [op |-> "Mat3::get_entry", self |-> m, row |-> row,
                   col |-> col, ret |-> Mat3_get_entry(m, row, col)]
    /\ UNCHANGED <<matvars, zbuff, zvars, framevars, canvasvars, rastervars, lookvars>>

\* data.rs:453-464
CallMat3SetEntry ==
    /\ call.op = "off"
    /\ \E m \in Mat3s, row \in Indices, col \in Indices, val \in SetVals :
          call' = [op |-> "Mat3::set_entry", self |-> m, row |-> row,
                   col |-> col, val |-> val,
                   after |-> Mat3_set_entry(m, row, col, val).self,
                   ret |-> Mat3_set_entry(m, row, col, val).ret]
    /\ UNCHANGED <<matvars, zbuff, zvars, framevars, canvasvars, rastervars, lookvars>>

\* data.rs:216-226
CallMat4GetEntry ==
    /\ call.op = "off"
    /\ \E m \in Mat4s, row \in Indices, col \in Indices :
          call' = [op |-> "Mat4::get_entry", self |-> m, row |-> row,
                   col |-> col, ret |-> Mat4_get_entry(m, row, col)]
    /\ UNCHANGED <<matvars, zbuff, zvars, framevars, canvasvars, rastervars, lookvars>>

\* data.rs:228-239
CallMat4SetEntry ==
    /\ call.op = "off"
    /\ \E m \in Mat4s, row \in Indices, col \in Indices, val \in SetVals :
          call' = [op |-> "Mat4::set_entry", self |-> m, row |-> row,
                   col |-> col, val |-> val,
                   after |-> Mat4_set_entry(m, row, col, val).self,
                   ret |-> Mat4_set_entry(m, row, col, val).ret]
    /\ UNCHANGED <<matvars, zbuff, zvars, framevars, canvasvars, rastervars, lookvars>>

\* data.rs:583-600
CallVec3Add ==
    /\ call.op = "off"
    /\ \E a \in Vec3s, b \in Vec3s :
          call' = [op |-> "Vec3::add", self |-> a, other |-> b,
                   ret |-> Vec3_add(a, b)]
    /\ UNCHANGED <<matvars, zbuff, zvars, framevars, canvasvars, rastervars, lookvars>>

\* data.rs:602-606
CallVec3AddInPlace ==
    /\ call.op = "off"
    /\ \E a \in Vec3s, b \in Vec3s :
          call' = [op |-> "Vec3::add_", self |-> a, other |-> b,
                   after |-> Vec3_add_(a, b)]
    /\ UNCHANGED <<matvars, zbuff, zvars, framevars, canvasvars, rastervars, lookvars>>

\* data.rs:608-618
CallVec3AddUnchecked ==
    /\ call.op = "off"
    /\ \E a \in Vec3s, b \in Vec3s :
          call' = [op |-> "Vec3::_add", self |-> a, other |-> b,
                   result |-> Vec3__add(a, b)]
    /\ UNCHANGED <<matvars, zbuff, zvars, framevars, canvasvars, rastervars, lookvars>>

\* data.rs:622-639
CallVec3Minus ==
    /\ call.op = "off"
    /\ \E a \in Vec3s, b \in Vec3s :
          call' = [op |-> "Vec3::minus", self |-> a, other |-> b,
                   ret |-> Vec3_minus(a, b)]
    /\ UNCHANGED <<matvars, zbuff, zvars, framevars, canvasvars, rastervars, lookvars>>

\* data.rs:641-645
CallVec3MinusInPlace ==
    /\ call.op = "off"
    /\ \E a \in Vec3s, b \in Vec3s :
          call' = [op |-> "Vec3::minus_", self |-> a, other |-> b,
                   after |-> Vec3_minus_(a, b)]
    /\ UNCHANGED <<matvars, zbuff, zvars, framevars, canvasvars, rastervars, lookvars>>

\* data.rs:647-657
CallVec3MinusUnchecked ==
    /\ call.op = "off"
    /\ \E a \in Vec3s, b \in Vec3s :
          call' = [op |-> "Vec3::_minus", self |-> a, other |-> b,
                   result |-> Vec3__minus(a, b)]
    /\ UNCHANGED <<matvars, zbuff, zvars, framevars, canvasvars, rastervars, lookvars>>

\* data.rs:878-896
CallVec4Add ==
    /\ call.op = "off"
    /\ \E a \in Vec4s, b \in Vec4s :
          call' = [op |-> "Vec4::add", self |-> a, other |-> b,
                   ret |-> Vec4_add(a, b)]
    /\ UNCHANGED <<matvars, zbuff, zvars, framevars, canvasvars, rastervars, lookvars>>

\* data.rs:911-916
CallVec4AddInPlace ==
    /\ call.op = "off"
    /\ \E a \in Vec4s, b \in Vec4s :
          call' = [op |-> "Vec4::add_", self |-> a, other |-> b,
                   after |-> Vec4_add_(a, b)]
    /\ UNCHANGED <<matvars, zbuff, zvars, framevars, canvasvars, rastervars, lookvars>>

\* data.rs:898-909
CallVec4AddUnchecked ==
    /\ call.op = "off"
    /\ \E a \in Vec4s, b \in Vec4s :
          call' = [op |-> "Vec4::_add", self |-> a, other |-> b,
                   result |-> Vec4__add(a, b)]
    /\ UNCHANGED <<matvars, zbuff, zvars, framevars, canvasvars, rastervars, lookvars>>

\* data.rs:920-938
CallVec4Minus ==
    /\ call.op = "off"
    /\ \E a \in Vec4s, b \in Vec4s :
          call' = [op |-> "Vec4::minus", self |-> a, other |-> b,
                   ret |-> Vec4_minus(a, b)]
    /\ UNCHANGED <<matvars, zbuff, zvars, framevars, canvasvars, rastervars, lookvars>>

\* data.rs:940-945
CallVec4MinusInPlace ==
    /\ call.op = "off"
    /\ \E a \in Vec4s, b \in Vec4s :
          call' = [op |-> "Vec4::minus_", self |-> a, other |-> b,
                   after |-> Vec4_minus_(a, b)]
    /\ UNCHANGED <<matvars, zbuff, zvars, framevars, canvasvars, rastervars, lookvars>>

\* data.rs:947-958
CallVec4MinusUnchecked ==
    /\ call.op = "off"
    /\ \E a \in Vec4s, b \in Vec4s :
          call' = [op |-> "Vec4::_minus", self |-> a, other |-> b,
                   result |-> Vec4__minus(a, b)]
    /\ UNCHANGED <<matvars, zbuff, zvars, framevars, canvasvars, rastervars, lookvars>>

\* data.rs:315-319
CallMat4Inverse ==
    /\ call.op = "off"
    /\ \E m \in Mat4s \cup {Mat4_identity} :
          call' = [op |-> "Mat4::inverse", self |-> m, ret |-> Mat4_inverse(m)]
    /\ UNCHANGED <<matvars, zbuff, zvars, framevars, canvasvars, rastervars, lookvars>>

\* data.rs:540-544
CallMat3Inverse ==
    /\ call.op = "off"
    /\ \E m \in Mat3s :
          call' = [op |-> "Mat3::inverse", self |-> m, ret |-> Mat3_inverse(m)]
    /\ UNCHANGED <<matvars, zbuff, zvars, framevars, canvasvars, rastervars, lookvars>>

\* channel values on both sides of 0 and of 1 and every multiple of 1/510
\* between them, so that 255 c falls on every integer and every half
Channels ==
    {Rat(n, 510) : n \in (-MaxChan)..(510 + MaxChan)} \cup {NotFinite}

Colors ==
    {Vec3_new_xyz(r, g, b) :
        <<r, g, b>> \in Channels \X {Rat(-1, 2), Rat(1, 2)} \X {Rat(3, 2), Rat(1, 3)}}
    \cup {Vec3_new_xyz(Rat(-1, 2), Rat(1, 2), Rat(3, 2))}

\* main.rs:467-475
CallToColor ==
    /\ call.op = "off"
    /\ \E color \in Colors :
          call' = [op |-> "to_color", color |-> color, ret |-> to_color(color)]
    /\ UNCHANGED <<matvars, zbuff, zvars, framevars, canvasvars, rastervars, lookvars>>

\* position buffers of 3n floats, n up to MaxVerts
PositionBuffers ==
    UNION {[0..(3 * n - 1) -> {RInt(0), RInt(1)}] : n \in 0..MaxVerts}

\* the orders in which n workers can finish
CompletionOrders(n) ==
    {done \in [1..n -> 0..(n - 1)] :
        \A i \in 1..n, j \in 1..n : done[i] = done[j] => i = j}

\* main.rs:29-48
CallGetPositionOs ==
    /\ call.op = "off"
    /\ \E positions \in PositionBuffers :
          \E done \in CompletionOrders(Cardinality(DOMAIN positions) \div 3) :
             call' = [op |-> "get_position_os", positions |-> positions,
                      done |-> done, ret |-> get_position_os(positions, done)]
    /\ UNCHANGED <<matvars, zbuff, zvars, framevars, canvasvars, rastervars, lookvars>>

\* shading.rs:177-185: the device-space vertex of an eye-space position p
device_vertex(perspective_mat, p, w_f, h_f) ==
    LET v_sc0 == Mat4_mat_vec_dot(perspective_mat, p)
        v_sc == Vec4_scalar_mul_(v_sc0, RDiv(RInt(1), W(v_sc0)))
    IN  Vec4_new_xyzw(
            RMul(RMul(RAdd(X(v_sc), RInt(1)), Rat(1, 2)), w_f),
            RMul(RMul(RAdd(Y(v_sc), RInt(1)), Rat(1, 2)), h_f),
            RDiv(RInt(-1), Z(v_sc)),
            RInt(1))

\* the projection matrices of a symmetric frustum with a right angle of view,
\* near plane at near and far plane at far: clip-space w is -z_eye
ProjectionMat(near, far) ==
    [transposed |-> FALSE,
     data |-> [r \in 0..3 |-> [c \in 0..3 |->
         IF r = c /\ r < 2 THEN RInt(1)
         ELSE IF r = 2 /\ c = 2 THEN Rat(-(far + near), far - near)
         ELSE IF r = 2 /\ c = 3 THEN Rat(-2 * far * near, far - near)
         ELSE IF r = 3 /\ c = 2 THEN RInt(-1)
         ELSE RInt(0)]]]

ProjectionMats ==
    {ProjectionMat(near, far) :
        <<near, far>> \in {q \in (1..MaxFar) \X (1..MaxFar) : q[1] < q[2]}}

\* eye-space positions in front of the camera
EyePoints ==
    {Vec4_new_xyzw(RInt(x), RInt(y), RInt(-z), RInt(1)) :
        <<x, y, z>> \in ((-1)..1) \X ((-1)..1) \X (1..MaxFar)}

\* shading.rs:177-185 for one vertex
CallDeviceVertex ==
    /\ call.op = "off"
    /\ \E perspective_mat \in ProjectionMats, p \in EyePoints :
          call' = [op |-> "device_vertex", perspective_mat |-> perspective_mat,
                   p |-> p,
                   ret |-> device_vertex(perspective_mat, p,
                                         RInt(WIDTH), RInt(HEIGHT))]
    /\ UNCHANGED <<matvars, zbuff, zvars, framevars, canvasvars, rastervars, lookvars>>

\* projected positions on and around the screen: x in steps of one half from
\* MaxOut halves left of the screen to MaxOut halves right of it, y on the
\* integers from one below the screen to one above it
ProjectedPoints ==
    {Vec4_new_xyzw(Rat(x, 2), RInt(y), RInt(1), RInt(1)) :
        <<x, y>> \in ((-MaxOut)..(2 * WIDTH + MaxOut)) \X ((-1)..(HEIGHT + 1))}

\* shading.rs:187-226 for one triangle of any three projected positions; a
\* triangle of zero area is left out as in InitRaster
CallRasterizeTriangle ==
    /\ call.op = "off"
    /\ \E v0_dc \in ProjectedPoints, v1_dc \in ProjectedPoints,
          v2_dc \in ProjectedPoints :
          /\ triangle_area(v0_dc, v1_dc, v2_dc) # RInt(0)
          /\ call' = [op |-> "rasterize_triangle", v0_dc |-> v0_dc,
                       v1_dc |-> v1_dc, v2_dc |-> v2_dc,
                       ret |-> rasterize_triangle(v0_dc, v1_dc, v2_dc,
                                                  RInt(WIDTH), RInt(HEIGHT))]
    /\ UNCHANGED <<matvars, zbuff, zvars, framevars, canvasvars, rastervars, lookvars>>

\* a mesh of n vertices in the plane z = 0, vertex k at (k % 2, k \div 2),
\* so that every length get_normals takes a root for is rational
MeshVertices(n) ==
    [k \in 0..(n - 1) |->
        [position |-> Vec4_new_xyzw(RInt(k % 2), RInt(k \div 2), RInt(0),
                                    RInt(1)),
         idx |-> k]]

\* the faces of n vertices: three different vertex indices, in both
\* windings, each listed from its smallest index
Faces(n) ==
    {f \in (0..(n - 1)) \X (0..(n - 1)) \X (0..(n - 1)) :
        f[1] < f[2] /\ f[1] < f[3] /\ f[2] # f[3]}

FaceCode(f, n) == (f[1] * n + f[2]) * n + f[3]

\* up to MaxFaces different faces, listed in increasing order
FaceLists(n) ==
    UNION {{s \in [1..m -> Faces(n)] :
               \A a \in 1..m, b \in 1..m :
                   a < b => FaceCode(s[a], n) < FaceCode(s[b], n)} :
           m \in 0..MaxFaces}

MeshIndices(faces) ==
    [i \in 0..(3 * Len(faces) - 1) |-> faces[(i \div 3) + 1][(i % 3) + 1]]

\* the keys of a map from the smallest on
RECURSIVE Ascending(_)
Ascending(keys) ==
    IF keys = {} THEN <<>>
    ELSE LET least == CHOOSE k \in keys : \A j \in keys : k <= j
         IN  <<least>> \o Ascending(keys \ {least})

Reversed(s) == [k \in 1..Len(s) |-> s[Len(s) + 1 - k]]

\* two of the orders in which a hash map can yield its entries
IterationOrders(map) ==
    {Ascending(DOMAIN map), Reversed(Ascending(DOMAIN map))}

\* main.rs:163 and 171
CallGetNormals ==
    /\ call.op = "off"
    /\ \E n \in 1..(MaxVerts + 1) :
          \E faces \in FaceLists(n) :
             LET vertices == MeshVertices(n)
                 adj_vertices_map == get_adj_vertices(MeshIndices(faces))
             IN  \E order \in IterationOrders(adj_vertices_map) :
                    call' = [op |-> "get_normals", vertices |-> vertices,
                             indices |-> MeshIndices(faces), order |-> order,
                             ret |-> get_normals(vertices, adj_vertices_map,
                                                 order)]
    /\ UNCHANGED <<matvars, zbuff, zvars, framevars, canvasvars, rastervars, lookvars>>

\* unit normals with rational components, as get_normals returns them
WorldNormals ==
    {Vec4_new_xyzw(RInt(1), RInt(0), RInt(0), RInt(0)),
     Vec4_new_xyzw(RInt(0), RInt(1), RInt(0), RInt(0)),
     Vec4_new_xyzw(RInt(0), RInt(0), RInt(1), RInt(0)),
     Vec4_new_xyzw(RInt(0), RInt(0), RInt(-1), RInt(0)),
     Vec4_new_xyzw(Rat(4, 5), RInt(0), Rat(3, 5), RInt(0)),
     Vec4_new_xyzw(Rat(3, 5), RInt(0), Rat(4, 5), RInt(0)),
     Vec4_new_xyzw(RInt(0), Rat(-3, 5), Rat(4, 5), RInt(0)),
     Vec4_new_xyzw(Rat(3, 5), Rat(4, 5), RInt(0), RInt(0))}

\* the squared length of a Vec4 has a rational root
RootedLength(v) ==
    LET l2 == RAdd(RAdd(RAdd(RMul(X(v), X(v)), RMul(Y(v), Y(v))),
                        RMul(Z(v), Z(v))), RMul(W(v), W(v)))
    IN  IsSquare(l2[1]) /\ IsSquare(l2[2])

\* main.rs:269-292 for one normal: the camera looks at the origin with up
\* (0, 1, 0) from an eye position for which the roots taken are rational
CallNormalEc ==
    /\ call.op = "off"
    /\ \E eye \in GridPoints, n \in WorldNormals :
          LET center == Vec3_new_xyz(RInt(0), RInt(0), RInt(0))
              up == Vec3_new_xyz(RInt(0), RInt(1), RInt(0))
              n_wc == [vertex_idx |-> 0, vec |-> n]
          IN  /\ Vec3_cross(eye, up).data # center.data
              /\ ExactlyRooted(eye, center, up)
              /\ RootedLength(transformed_normal(
                                  Camera_new(eye, center, up), n_wc))
              /\ call' = [op |-> "normal_ec", eye |-> eye, center |-> center,
                           up |-> up, n_wc |-> n_wc,
                           ret |-> normal_ec(Camera_new(eye, center, up),
                                             n_wc)]
    /\ UNCHANGED <<matvars, zbuff, zvars, framevars, canvasvars, rastervars, lookvars>>

\* the factors of scalar_mul
Scalars == {RInt(-1), Rat(1, 2), RInt(2)}

\* data.rs:582-658 and 709-734: every variant of add, minus, scalar_mul and
\* normalize on one receiver, with an operand of the same transposed flag;
\* the receiver's length has a rational root
CallVec3Variants ==
    /\ call.op = "off"
    /\ \E a \in Vec3s, b \in Vec3s, s \in Scalars :
          /\ a.transposed = b.transposed
          /\ IsSquare(Norm2(a))
          /\ call' = [op |-> "Vec3 variants", self |-> a, other |-> b, s |-> s,
                       add |-> Vec3_add(a, b), _add |-> Vec3__add(a, b),
                       add_ |-> Vec3_add_(a, b),
                       minus |-> Vec3_minus(a, b), _minus |-> Vec3__minus(a, b),
                       minus_ |-> Vec3_minus_(a, b),
                       scalar_mul |-> Vec3_scalar_mul(a, s),
                       scalar_mul_ |-> Vec3_scalar_mul_(a, s),
                       normalize |-> Vec3_normalize(a),
                       normalize_ |-> Vec3_normalize_(a)]
    /\ UNCHANGED <<matvars, zbuff, zvars, framevars, canvasvars, rastervars, lookvars>>

\* data.rs:877-959 and 984-1016: the same for Vec4
CallVec4Variants ==
    /\ call.op = "off"
    /\ \E a \in Vec4s, b \in Vec4s, s \in Scalars :
          /\ a.transposed = b.transposed
          /\ RootedLength(a)
          /\ call' = [op |-> "Vec4 variants", self |-> a, other |-> b, s |-> s,
                       add |-> Vec4_add(a, b), _add |-> Vec4__add(a, b),
                       add_ |-> Vec4_add_(a, b),
                       minus |-> Vec4_minus(a, b), _minus |-> Vec4__minus(a, b),
                       minus_ |-> Vec4_minus_(a, b),
                       scalar_mul |-> Vec4_scalar_mul(a, s),
                       scalar_mul_ |-> Vec4_scalar_mul_(a, s),
                       normalize |-> Vec4_normalize(a),
                       normalize_ |-> Vec4_normalize_(a)]
    /\ UNCHANGED <<matvars, zbuff, zvars, framevars, canvasvars, rastervars, lookvars>>

NextCalls ==
    \/ CallTranslateObj
    \/ CallRotateObj
    \/ CallCross
    \/ CallVec3Get
    \/ CallVec3Set
    \/ CallVec4Get
    \/ CallVec4Set
    \/ CallMat3GetEntry
    \/ CallMat3SetEntry
    \/ CallMat4GetEntry
    \/ CallMat4SetEntry
    \/ CallMat4Inverse
    \/ CallMat3Inverse
    \/ CallToColor
    \/ CallGetPositionOs
    \/ CallVec3Add
    \/ CallVec3AddInPlace
    \/ CallVec3AddUnchecked
    \/ CallVec3Minus
    \/ CallVec3MinusInPlace
    \/ CallVec3MinusUnchecked
    \/ CallVec4Add
    \/ CallVec4AddInPlace
    \/ CallVec4AddUnchecked
    \/ CallVec4Minus
    \/ CallVec4MinusInPlace
    \/ CallVec4MinusUnchecked
    \/ CallRasterizeTriangle
    \/ CallDeviceVertex
    \/ CallGetNormals
    \/ CallNormalEc
    \/ CallVec3Variants
    \/ CallVec4Variants

SpecCalls == InitCalls /\ [][NextCalls]_vars

----------------------------------------------------------------------------
(* A matrix under a sequence of transpose, transpose_ and set_entry calls,
   src/src/data.rs:215-244, 321-332, 441-464, 526-537.  logical follows the
   meaning of each call. *)

\* the size of a matrix, 3 or 4
Dim(m) == Cardinality(DOMAIN m.data)

IsMat4(m) == Dim(m) = 4

\* the entries a freshly built matrix stands for
LogicalOf(m) ==
    [r \in DOMAIN m.data |-> [c \in DOMAIN m.data |->
        IF m.transposed THEN m.data[c][r] ELSE m.data[r][c]]]

InitTranspose ==
    /\ zbuff = ZBuffer_new(WIDTH, HEIGHT, F32_MAX)
    /\ zcall = NoCall
    /\ fresh = Cells
    /\ FrameIdle
    /\ CanvasIdle
    /\ RasterIdle
    /\ LookIdle
    /\ mat \in {TestMat4(1, 0, FALSE), TestMat4(1, 2, TRUE),
                TestMat3(1, 0, FALSE), TestMat3(1, 2, TRUE)}
    /\ logical = LogicalOf(mat)
    /\ mat_steps = 0

\* data.rs:322-327, 527-532: the transposed copy takes the place of mat
Transpose ==
    /\ mat_steps < MaxSteps
    /\ mat' = IF IsMat4(mat) THEN Mat4_transpose(mat) ELSE Mat3_transpose(mat)
    /\ logical' = [r \in DOMAIN logical |-> [c \in DOMAIN logical |->
                      logical[c][r]]]
    /\ mat_steps' = mat_steps + 1
    /\ UNCHANGED <<zbuff, zvars, framevars, canvasvars, rastervars, lookvars, algvars>>

\* data.rs:329-331, 534-536
TransposeInPlace ==
    /\ mat_steps < MaxSteps
    /\ mat' = IF IsMat4(mat) THEN Mat4_transpose_(mat) ELSE Mat3_transpose_(mat)
    /\ logical' = [r \in DOMAIN logical |-> [c \in DOMAIN logical |->
                      logical[c][r]]]
    /\ mat_steps' = mat_steps + 1
    /\ UNCHANGED <<zbuff, zvars, framevars, canvasvars, rastervars, lookvars, algvars>>

\* data.rs:228-239, 453-464: a successful set_entry changes one logical
\* entry, a refused one nothing
SetEntry ==
    /\ mat_steps < MaxSteps
    /\ \E row \in Indices, col \in Indices, val \in SetVals :
          LET done == IF IsMat4(mat) THEN Mat4_set_entry(mat, row, col, val)
                      ELSE Mat3_set_entry(mat, row, col, val)
          IN  /\ mat' = done.self
              /\ logical' = IF done.ret.ok
                            THEN [logical EXCEPT ![row][col] = val]
                            ELSE logical
    /\ mat_steps' = mat_steps + 1
    /\ UNCHANGED <<zbuff, zvars, framevars, canvasvars, rastervars, lookvars, algvars>>

NextTranspose == Transpose \/ TransposeInPlace \/ SetEntry

SpecTranspose == InitTranspose /\ [][NextTranspose]_vars

----------------------------------------------------------------------------
(* The canvas: input events and frames, src/src/state.rs and
   src/src/main.rs:182-363.  pixel_canvas calls handle_input for every event
   and the render closure for every frame, on one thread, so each is one
   step.  The closure's timers (raster_time_ema, shading_time_ema, now) are
   left out: they are read for the printed statistics only. *)

CAMERA_Z_WC == 4
every_n_frames == 10

\* `as i32`: truncation toward zero, NaN to 0
AsI32(p) ==
    IF p[2] = 0 THEN 0
    ELSE IF p[1] < 0 THEN -((-p[1]) \div p[2]) ELSE p[1] \div p[2]

\* state.rs:16-27
KeyboardMouseStates_new ==
    [received_mouse_press |-> FALSE, received_keycode |-> FALSE,
     keycode |-> "Escape", x |-> 0, y |-> 0, virtual_x |-> 0, virtual_y |-> 0]

\* reset_flags that leaves received_mouse_press as it is
KeyboardMouseStates_reset_flags_keycode_only(self) ==
    [self EXCEPT !.received_keycode = FALSE]
\* state.rs:29-33
KeyboardMouseStates_reset_flags(self) ==
    [self EXCEPT !.received_keycode = FALSE, !.received_mouse_press = FALSE]

\* state.rs:35-75
KeyboardMouseStates_handle_input(info, state_to_change, event) ==
    IF event.kind = "CursorMoved"
    THEN LET x == event.position[1]
             y == event.position[2]
         IN  [state |-> [state_to_change EXCEPT
                            !.virtual_x = x,
                            !.virtual_y = y,
                            !.x = AsI32(RMul(RInt(x), info.dpi)),
                            !.y = AsI32(RMul(RInt(info.height - y), info.dpi))],
              ret |-> TRUE]
    ELSE IF event.kind = "KeyboardInput"
    THEN IF event.virtual_keycode = "None"
         THEN [state |-> state_to_change, ret |-> FALSE]
         ELSE [state |-> [state_to_change EXCEPT
                             !.received_keycode = TRUE,
                             !.keycode = event.virtual_keycode],
               ret |-> TRUE]
    ELSE IF event.kind = "MouseInput"
    THEN IF event.state = "Pressed"
         THEN [state |-> [state_to_change EXCEPT
                             !.received_mouse_press = TRUE],
               ret |-> TRUE]
         ELSE [state |-> state_to_change, ret |-> FALSE]
    ELSE [state |-> state_to_change, ret |-> FALSE]

\* data.rs:575-580
Vec3_dot(self, other) ==
    RAdd(RAdd(RMul(X(self), X(other)), RMul(Y(self), Y(other))),
         RMul(Z(self), Z(other)))

\* main.rs:208-229, on a build that is not for Windows: the point of the
\* arcball under pixel (x, y), before it is normalized
arc_ball_point(x, y) ==
    LET nx == RMul(RSub(RDiv(RInt(x), RInt(WIDTH)), Rat(1, 2)), RInt(2))
        ny == RMul(RSub(RDiv(RInt(y), RInt(HEIGHT)), Rat(1, 2)), RInt(2))
        sqr == RSub(RMul(nx, nx), RMul(ny, ny))
        len == RSqrt(sqr)
    IN  IF RLt(sqr, RInt(1))
        THEN Vec3_new_xyz(nx, ny, RSqrt(RSub(RInt(1), sqr)))
        ELSE Vec3_new_xyz(RDiv(nx, len), RDiv(ny, len), RInt(0))

\* f32::asin: the angle in [-pi/2, pi/2] of sine s, by its cosine and sine
Asin(s) ==
    LET cos == RSqrt(RSub(RInt(1), RMul(s, s)))
    IN  [cos |-> cos, sin |-> IF IsFinite(cos) THEN s ELSE NotFinite]

\* main.rs:206-251: the handling of a mouse press at pixel (x, y); c holds
\* the variables the closure has captured
mouse_press(c, x, y) ==
    LET v == Vec3_normalize_(arc_ball_point(x, y))
    IN  IF c.arc_ball_initialized
        THEN LET rotate_axis ==
                     Vec3_normalize_(Vec3_cross(v, c.arc_ball_previous))
                 sin == Vec3_dot(v, c.arc_ball_previous)
                 rotate_angle_rad == Asin(sin)
                 rotate_mat ==
                     rotate_obj(Mat4_identity, rotate_angle_rad, rotate_axis)
                 rotated == Mat4_mat_vec_dot(rotate_mat,
                                             Vec4_from(c.cam_pos_wc, RInt(1)))
                 cam_pos_wc_v4 == Vec4_scalar_div_(rotated, W(rotated))
             IN  [c EXCEPT !.cam_pos_wc =
                     [@ EXCEPT !.data = [k \in 0..2 |->
                                            cam_pos_wc_v4.data[k]]]]
        ELSE [c EXCEPT !.arc_ball_initialized = TRUE,
                       !.arc_ball_previous =
                           Vec3_normalize_([@ EXCEPT !.data =
                                               arc_ball_point(x, y).data])]

\* the key handling with the two keys exchanged
keycode_handling_exchanged(c, keycode) ==
    IF keycode = "P" THEN [c EXCEPT !.gouraud_shading = TRUE]
    ELSE IF keycode = "G" THEN [c EXCEPT !.gouraud_shading = FALSE]
    ELSE c
\* main.rs:255-266
keycode_handling(c, keycode) ==
    IF keycode = "P" THEN [c EXCEPT !.gouraud_shading = FALSE]
    ELSE IF keycode = "G" THEN [c EXCEPT !.gouraud_shading = TRUE]
    ELSE c

\* main.rs:274-319: the attributes that the vertices of the constant mesh
\* get for the camera at cam_pos in the branch taken at main.rs:297, as a
\* number that tells the branches apart and depends on the camera
scene_attributes(cam_pos, gouraud) ==
    2 * AsI32(Vec3_dot(cam_pos, cam_pos)) + (IF gouraud THEN 0 ELSE 1)

\* main.rs:269-319: the fragments of the constant mesh for the camera at
\* cam_pos.  The mesh is one that covers the two corner pixels of the
\* screen.  A camera position that is not a number leaves every coordinate
\* of get_min_max at 0 and gives no fragment.
scene_fragments(cam_pos, gouraud) ==
    IF \E k \in 0..2 : ~IsFinite(cam_pos.data[k]) THEN <<>>
    ELSE LET attributes == scene_attributes(cam_pos, gouraud)
         IN  <<[x |-> 0, y |-> 0, z |-> F32_MAX - 1, tri |-> attributes],
               [x |-> WIDTH - 1, y |-> HEIGHT - 1, z |-> F32_MAX - 1,
                tri |-> attributes]>>

\* main.rs:321-327: the whole loop
RECURSIVE fold_fragments(_, _, _)
fold_fragments(zb, sv, frags) ==
    IF frags = <<>> THEN [zbuff |-> zb, survived |-> sv]
    ELSE LET r == depth_fold(zb, sv, frags[Len(frags)])
         IN  fold_fragments(r.zbuff, r.survived,
                            SubSeq(frags, 1, Len(frags) - 1))

\* main.rs:334-337: the colour of a fragment, a number other than BLACK that
\* tells the branch taken and the attributes it is computed from
fragment_color(gouraud, f) ==
    1 + (IF gouraud THEN 0 ELSE 1) + 2 * f.tri

\* main.rs:205, 268-363: the closure from reset_flags on, with the captured
\* variables c as the handling of the input has left them
render_scene(c, st, img, zb) ==
    LET cleared == [x \in Xs |-> [y \in Ys |-> BLACK]]
        frags == scene_fragments(c.cam_pos_wc, c.gouraud_shading)
        folded == fold_fragments(zb, <<>>, frags)
        colors == [k \in 1..Len(folded.survived) |->
                      [folded.survived[k] EXCEPT !.tri =
                          fragment_color(c.gouraud_shading,
                                         folded.survived[k])]]
        printed == c.i % every_n_frames = 0
    IN  [captured |-> [c EXCEPT !.i = (IF printed THEN 0 ELSE c.i) + 1],
         state |-> KeyboardMouseStates_reset_flags(st),
         frame_buffer_image |-> write_colors(cleared, colors),
         zbuff |-> ZBuffer_reset(folded.zbuff, F32_MAX),
         printed |-> printed]

\* main.rs:206: `if state.received_mouse_press`
on_mouse_press(c, st) ==
    IF st.received_mouse_press THEN mouse_press(c, st.x, st.y) ELSE c

\* main.rs:253: `if state.received_keycode`
on_keycode(c, st) ==
    IF st.received_keycode THEN keycode_handling(c, st.keycode) ELSE c

\* main.rs:204-363: the closure on the captured variables c, the canvas
\* state st, the image img and the z-buffer zb
render(c, st, img, zb) ==
    render_scene(on_keycode(on_mouse_press(c, st), st), st, img, zb)

\* the variables the closure has captured, main.rs:183, 192-194, 202
Captured ==
    [gouraud_shading |-> gouraud_shading, cam_pos_wc |-> cam_pos_wc,
     arc_ball_initialized |-> arc_ball_initialized,
     arc_ball_previous |-> arc_ball_previous, i |-> frame_i]

\* the events of the window: cursor positions on and next to the screen
Events ==
    {[kind |-> "CursorMoved", position |-> p] :
        p \in (0..WIDTH) \X (1..MaxCursorY)}
    \cup {[kind |-> "KeyboardInput", virtual_keycode |-> k] :
              k \in {"None", "P", "G", "Escape"}}
    \cup {[kind |-> "MouseInput", state |-> s] : s \in {"Pressed", "Released"}}
    \cup {[kind |-> "Focused"], [kind |-> "DeviceEvent"]}

\* CanvasInfo: the height of the canvas and the scale factor of the display
Infos == {[height |-> HEIGHT, dpi |-> RInt(d)] : d \in 1..MaxDpi}

\* the rational q has a rational square root
RootedRat(q) == IsFinite(q) /\ IsSquare(q[1]) /\ IsSquare(q[2])

\* every root that the handling of a press at pixel (x, y) takes is rational,
\* so that the exact arithmetic can follow the computation
ExactPress(c, x, y) ==
    LET p == arc_ball_point(x, y)
        v == Vec3_normalize_(p)
        axis == Vec3_cross(v, c.arc_ball_previous)
        sin == Vec3_dot(v, c.arc_ball_previous)
    IN  /\ \A k \in 0..2 : IsFinite(p.data[k])
        /\ RootedRat(Vec3_dot(p, p))
        /\ Vec3_dot(p, p) # RInt(0)
        /\ c.arc_ball_initialized =>
              /\ RootedRat(Vec3_dot(axis, axis))
              /\ RootedRat(RSub(RInt(1), RMul(sin, sin)))

InitCanvas ==
    /\ zbuff = ZBuffer_new(WIDTH, HEIGHT, F32_MAX)
    /\ zcall = NoCall
    /\ fresh = Cells
    /\ FrameIdle
    /\ MatIdle
    /\ RasterIdle
    /\ LookIdle
    /\ state = KeyboardMouseStates_new
    /\ gouraud_shading = TRUE
    /\ cam_pos_wc = Vec3_new_xyz(RInt(0), RInt(0), RInt(CAMERA_Z_WC))
    /\ arc_ball_initialized = FALSE
    /\ arc_ball_previous = Vec3_new_xyz(RInt(0), RInt(0), RInt(0))
    /\ frame_i = 0
    /\ last = [op |-> "new"]
    /\ preceding_press = <<>>

\* pixel_canvas delivers an event to handle_input
HandleInput ==
    /\ \E info \in Infos, event \in Events :
          LET r == KeyboardMouseStates_handle_input(info, state, event)
          IN  /\ state' = r.state
              /\ last' = [op |-> "handle_input"]
    /\ UNCHANGED <<zbuff, zvars, framevars, rastervars, lookvars, algvars,
                   matvars, gouraud_shading, cam_pos_wc, arc_ball_initialized,
                   arc_ball_previous, frame_i, preceding_press>>

\* pixel_canvas calls the render closure for a frame
Render ==
    /\ state.received_mouse_press => ExactPress(Captured, state.x, state.y)
    /\ \E r \in {render(Captured, state, frame_buffer_image, zbuff)} :
           /\ state' = r.state
           /\ gouraud_shading' = r.captured.gouraud_shading
           /\ cam_pos_wc' = r.captured.cam_pos_wc
           /\ arc_ball_initialized' = r.captured.arc_ball_initialized
           /\ arc_ball_previous' = r.captured.arc_ball_previous
           /\ frame_i' = r.captured.i
           /\ frame_buffer_image' = r.frame_buffer_image
           /\ zbuff' = r.zbuff
           /\ last' = [op |-> "render", observed |-> state,
                        printed |-> r.printed]
    /\ preceding_press' =
          IF state.received_mouse_press
          THEN Vec3_normalize_(arc_ball_point(state.x, state.y))
          ELSE preceding_press
    /\ UNCHANGED <<zvars, pc, frames, triangles_ec, finished, fragments,
                   survived_fragments, rastervars, lookvars, algvars, matvars>>

NextCanvas ==
    \/ HandleInput
    \/ Render

SpecCanvas == InitCanvas /\ [][NextCanvas]_vars

----------------------------------------------------------------------------
(* C1: update(x, y, d) stores d and returns true when d is strictly smaller *)
(* than the stored value, otherwise returns false and leaves the whole      *)
(* buffer unchanged; every cell other than (x, y) keeps its value.          *)
C1_UpdateContract ==
    zcall.op = "update" =>
        LET old == zcall.before[zcall.x][zcall.y]
            smaller == old # F32_NAN /\ zcall.val # F32_NAN /\ zcall.val < old
        IN  /\ smaller => (zcall.ret = TRUE /\ zbuff[zcall.x][zcall.y] = zcall.val)
            /\ ~smaller => (zcall.ret = FALSE /\ zbuff = zcall.before)
            /\ \A c \in Cells :
                   c # <<zcall.x, zcall.y>> => zbuff[c[1]][c[2]] = zcall.before[c[1]][c[2]]

\* an accepted and a rejected update on a buffer with differing cells
C1_Witness ==
    /\ zcall.op = "update"
    /\ zcall.ret = TRUE
    /\ zcall.x = 1 /\ zcall.y = 0
    /\ zcall.before[0][1] # zcall.before[1][0]
    /\ zbuff[1][0] = F32_MAX - 2

(* C2 as stated: after reset(F32_MAX), the first update of a pixel with any *)
(* finite depth is accepted.                                                *)
C2_FirstUpdateAnyFinite ==
    (zcall.op = "update" /\ zcall.first /\ zcall.val \in FiniteDepths)
        => zcall.ret = TRUE

(* C2, amended: after reset(F32_MAX), the first update of a pixel with a    *)
(* depth strictly below F32_MAX is accepted and stored; a first update with *)
(* F32_MAX itself is rejected.                                              *)
C2_FirstUpdateBelowMax ==
    (zcall.op = "update" /\ zcall.first /\ zcall.val \in FiniteDepths) =>
        /\ zcall.val < F32_MAX =>
               (zcall.ret = TRUE /\ zbuff[zcall.x][zcall.y] = zcall.val)
        /\ zcall.val = F32_MAX => zcall.ret = FALSE

\* a first update after a reset that followed earlier writes is accepted
C2_Witness ==
    /\ zcall.op = "update" /\ zcall.first /\ zcall.ret = TRUE
    /\ zcall.x = 1 /\ zcall.y = 1
    /\ <<0, 0>> \notin fresh
    /\ fresh = {<<0, 1>>, <<1, 0>>}

----------------------------------------------------------------------------
(* Claims on the frame loop *)

\* a < b on f32, as the claims read it: false as soon as one side is NaN
FloatLt(a, b) == a # F32_NAN /\ b # F32_NAN /\ a < b

\* every fragment the triangles of the frame produce, and those at one pixel
AllFragments == {triangles_ec[t][k] : <<t, k>> \in
                    {tk \in (1..Len(triangles_ec)) \X (1..(WIDTH * HEIGHT)) :
                        tk[2] <= Len(triangles_ec[tk[1]])}}
FragmentsAt(x, y) == {f \in AllFragments : f.x = x /\ f.y = y}
SurvivorsAt(x, y) ==
    SelectSeq(survived_fragments, LAMBDA f : f.x = x /\ f.y = y)
FoldNotStarted ==
    /\ pc = "fold"
    /\ survived_fragments = <<>>
    /\ Len(fragments) = Cardinality(AllFragments)

(* C3 as stated: within one frame at most one fragment per pixel is        *)
(* accepted by the fold, so survived_fragments holds at most one fragment  *)
(* per (x, y).                                                             *)
C3_AtMostOneSurvivorPerPixel ==
    \A c \in Cells : Len(SurvivorsAt(c[1], c[2])) <= 1

(* C3, amended: within one frame, the fragments accepted at one pixel have *)
(* strictly decreasing depths in the order they are accepted, all below    *)
(* F32_MAX; survived_fragments may hold several fragments per (x, y), and  *)
(* only the last of them has the depth left in the z-buffer.               *)
C3_SurvivorsStrictlyDecrease ==
    pc \in {"fold", "reset"} =>
        \A c \in Cells :
            LET sv == SurvivorsAt(c[1], c[2])
            IN  /\ \A i \in 1..Len(sv) : FloatLt(sv[i].z, F32_MAX)
                /\ \A i \in 1..Len(sv) : \A j \in 1..Len(sv) :
                       i < j => FloatLt(sv[j].z, sv[i].z)
                /\ sv # <<>> => zbuff[c[1]][c[2]] = sv[Len(sv)].z
                /\ sv = <<>> => zbuff[c[1]][c[2]] = F32_MAX

\* two fragments of one pixel were both accepted
C3_Witness ==
    /\ pc = "reset"
    /\ \E c \in Cells : Len(SurvivorsAt(c[1], c[2])) >= 2

(* C4: at the end of a frame, a pixel where a fragment with a depth below  *)
(* the sentinel was rasterized holds the colour of a fragment of minimum   *)
(* depth among all the fragments at that pixel, and a pixel where no       *)
(* fragment was rasterized is black.                                       *)
C4_MinimumDepthColour ==
    pc = "reset" =>
        \A c \in Cells :
            LET F == FragmentsAt(c[1], c[2])
                colour == frame_buffer_image[c[1]][c[2]]
            IN  /\ (\E f \in F : FloatLt(f.z, F32_MAX)) =>
                       \E f \in F : /\ get_color(f) = colour
                                    /\ \A g \in F : ~FloatLt(g.z, f.z)
                /\ F = {} => colour = BLACK

\* a pixel with a farther survivor written first and a nearer one written
\* over it, and a pixel left black
C4_Witness ==
    /\ pc = "reset"
    /\ \E c \in Cells :
         /\ Len(SurvivorsAt(c[1], c[2])) >= 2
         /\ frame_buffer_image[c[1]][c[2]] # BLACK
    /\ \E c \in Cells : FragmentsAt(c[1], c[2]) = {}

\* the fragments that survive the fold of the triangles in index order: at a
\* pixel, a fragment below the sentinel that is strictly nearer than every
\* fragment of a later triangle (the fold pops the last triangle first)
ExpectedSurvivors ==
    {f \in AllFragments :
        /\ FloatLt(f.z, F32_MAX)
        /\ \A g \in FragmentsAt(f.x, f.y) :
               (g.tri > f.tri /\ g.z # F32_NAN) => FloatLt(f.z, g.z)}
\* the colour that fold leaves at a pixel: of the nearest fragment, and among
\* equally near ones of the one of the last triangle
ExpectedColour(x, y) ==
    LET S == {f \in FragmentsAt(x, y) : FloatLt(f.z, F32_MAX)}
    IN  IF S = {} THEN BLACK
        ELSE get_color(CHOOSE f \in S : \A g \in S \ {f} :
                 f.z < g.z \/ (f.z = g.z /\ f.tri > g.tri))

(* C5: for a fixed set of triangles, the surviving fragments and the final *)
(* colour of every pixel are functions of the triangles alone: they do not *)
(* depend on the order in which the rasterization workers finished, also   *)
(* when two fragments of a pixel have equal depth.                         *)
C5_IndependentOfWorkerOrder ==
    /\ FoldNotStarted => fragments = Flatten(triangles_ec)
    /\ pc = "reset" =>
        /\ {survived_fragments[i] : i \in 1..Len(survived_fragments)}
               = ExpectedSurvivors
        /\ Len(survived_fragments) = Cardinality(ExpectedSurvivors)
        /\ \A c \in Cells :
               frame_buffer_image[c[1]][c[2]] = ExpectedColour(c[1], c[2])

\* the worker of the last triangle finished first, and two triangles have a fragment of the
\* same depth at the same pixel
C5_Witness ==
    /\ pc = "reset"
    /\ finished[1] = NTri
    /\ \E f \in AllFragments : \E g \in AllFragments :
         /\ f.tri # g.tri /\ f.x = g.x /\ f.y = g.y /\ f.z = g.z
         /\ f.z < F32_MAX
         /\ frame_buffer_image[f.x][f.y] # BLACK

(* C6: in every frame, the first included, every cell of the z-buffer      *)
(* equals F32_MAX when the fold of the frame's fragments starts (and from  *)
(* the end of the previous frame until then).                              *)
C6_ZBufferIsSentinelAtFoldStart ==
    (pc \in {"idle", "transform", "rasterize"} \/ FoldNotStarted) =>
        \A c \in Cells : zbuff[c[1]][c[2]] = F32_MAX

\* the fold of a later frame is about to start on a non-empty fragment list
C6_Witness ==
    /\ frames >= 1
    /\ FoldNotStarted
    /\ Len(fragments) = MaxFrags

----------------------------------------------------------------------------
(* Claims about the rasterizer, checked under SpecRaster *)

\* twice the signed area of a b p in axes with y up: positive when p lies to
\* the left of the directed line a b
Orient(a, b, p) ==
    RSub(RMul(RSub(X(b), X(a)), RSub(Y(p), Y(a))),
         RMul(RSub(Y(b), Y(a)), RSub(X(p), X(a))))

\* p lies strictly on the side of line a b on which c lies
SameSideStrict(a, b, c, p) ==
    RGt(RMul(Orient(a, b, p), Orient(a, b, c)), RInt(0))

\* p lies on line a b or on the side of it on which c lies
SameSide(a, b, c, p) ==
    RGe(RMul(Orient(a, b, p), Orient(a, b, c)), RInt(0))

Proper(t) == Orient(t[1], t[2], t[3]) # RInt(0)

StrictlyInside(t, p) ==
    /\ Proper(t)
    /\ SameSideStrict(t[1], t[2], t[3], p)
    /\ SameSideStrict(t[2], t[3], t[1], p)
    /\ SameSideStrict(t[3], t[1], t[2], p)

InClosedTriangle(t, p) ==
    /\ Proper(t)
    /\ SameSide(t[1], t[2], t[3], p)
    /\ SameSide(t[2], t[3], t[1], p)
    /\ SameSide(t[3], t[1], t[2], p)

\* the fragments triangle k emitted for pixel (i, j)
EmittedAt(k, i, j) ==
    {n \in 1..Len(raster_out[k]) :
        raster_out[k][n].x = i /\ raster_out[k][n].y = j}

EdgesOf(k, i, j) ==
    edge_functions(vs_dc[k][1], vs_dc[k][2], vs_dc[k][3], i, j)

WeightsSumToOne(f) ==
    RAdd(RAdd(f.weights[1], f.weights[2]), f.weights[3]) = RInt(1)

\* the pixel's edge values pass the test, and its one fragment has weights
\* that sum to 1
EdgesAndWeightsRight(k, i, j) ==
    /\ covered(EdgesOf(k, i, j))
    /\ Cardinality(EmittedAt(k, i, j)) = 1
    /\ \A n \in EmittedAt(k, i, j) : WeightsSumToOne(raster_out[k][n])

\* C7 as stated: for a triangle of either winding, a pixel whose centre is
\* strictly inside has three non-negative edge values and weights that sum
\* to 1.
C7_EitherWinding ==
    raster_pc = "done" =>
        \A k \in 1..2 : \A i \in Xs, j \in Ys :
            StrictlyInside(vs_dc[k], pixel_centre(i, j))
                => EdgesAndWeightsRight(k, i, j)

\* C7, amended: the statement holds for the triangles whose signed area
\* triangle_area(v0, v1, v2) is positive (Orient negative); for a triangle of
\* the other winding the three edge values of an inside pixel are all
\* negative and the pixel is not emitted.
C7_PositiveAreaWinding ==
    raster_pc = "done" =>
        \A k \in 1..2 : \A i \in Xs, j \in Ys :
            StrictlyInside(vs_dc[k], pixel_centre(i, j)) =>
                IF RLt(Orient(vs_dc[k][1], vs_dc[k][2], vs_dc[k][3]), RInt(0))
                THEN EdgesAndWeightsRight(k, i, j)
                ELSE /\ \A m \in 1..3 : RLt(EdgesOf(k, i, j)[m], RInt(0))
                     /\ EmittedAt(k, i, j) = {}

\* a positively wound triangle has emitted an inside pixel, and a negatively
\* wound one has an inside pixel it dropped
C7_Witness ==
    /\ raster_pc = "done"
    /\ RLt(Orient(vs_dc[1][1], vs_dc[1][2], vs_dc[1][3]), RInt(0))
    /\ \E i \in Xs, j \in Ys :
          /\ StrictlyInside(vs_dc[1], pixel_centre(i, j))
          /\ EmittedAt(1, i, j) # {}
    /\ RGt(Orient(vs_dc[2][1], vs_dc[2][2], vs_dc[2][3]), RInt(0))
    /\ \E i \in Xs, j \in Ys :
          /\ StrictlyInside(vs_dc[2], pixel_centre(i, j))
          /\ EmittedAt(2, i, j) = {}

\* both triangles have positive signed area, so v2 and v3 lie on opposite
\* sides of the shared edge v0 v1
SameWindingPair ==
    /\ RLt(Orient(vs_dc[1][1], vs_dc[1][2], vs_dc[1][3]), RInt(0))
    /\ RLt(Orient(vs_dc[2][1], vs_dc[2][2], vs_dc[2][3]), RInt(0))

\* C8 as stated: of two triangles of the same winding that share an edge,
\* exactly one emits each in-screen pixel whose centre lies in their union,
\* the centres on the shared edge included.  (The pairs are the positively
\* wound ones; a negatively wound triangle emits nothing, see C7.)
C8_ExactlyOnceOverSharedEdge ==
    (raster_pc = "done" /\ SameWindingPair) =>
        \A i \in Xs, j \in Ys :
            (\/ InClosedTriangle(vs_dc[1], pixel_centre(i, j))
             \/ InClosedTriangle(vs_dc[2], pixel_centre(i, j)))
                => Cardinality(EmittedAt(1, i, j))
                     + Cardinality(EmittedAt(2, i, j)) = 1

----------------------------------------------------------------------------
(* Claims about the camera transform, checked under SpecLookAt *)

ZeroVec3 == Vec3_new_xyz(RInt(0), RInt(0), RInt(0))

\* eye # center, and up not parallel to eye - center
ValidCamera ==
    /\ camera.eye # camera.center
    /\ Vec3_cross(Vec3__minus(camera.eye, camera.center), camera.up).data
           # ZeroVec3.data

\* C9: for a valid camera, look_at maps (eye, 1) to the origin (0, 0, 0, 1)
\* and (center, 1) to (0, 0, -|eye - center|, 1).
C9_EyeToOriginCenterToMinusZ ==
    (look_pc \in {"viewed", "restored"} /\ ValidCamera) =>
        /\ world_p = Vec4_from(camera.eye, RInt(1))
              => eye_p.data = Vec4_new_xyzw(RInt(0), RInt(0), RInt(0), RInt(1)).data
        /\ world_p = Vec4_from(camera.center, RInt(1))
              => /\ X(eye_p) = RInt(0)
                 /\ Y(eye_p) = RInt(0)
                 /\ RLt(Z(eye_p), RInt(0))
                 /\ RMul(Z(eye_p), Z(eye_p))
                        = RInt(Norm2(Vec3__minus(camera.eye, camera.center)))
                 /\ W(eye_p) = RInt(1)

\* look_at has been applied to the centre of a camera that looks along no
\* axis, from an eye that is not the world's origin
C9_Witness ==
    /\ look_pc = "viewed"
    /\ ValidCamera
    /\ world_p = Vec4_from(camera.center, RInt(1))
    /\ camera.eye # ZeroVec3
    /\ Cardinality({i \in 0..2 :
           camera.eye.data[i] # camera.center.data[i]}) >= 2
    /\ Z(eye_p) = RInt(-5)

RotationRow(m, r) == [i \in 0..2 |-> Mat4__get_entry(m, r, i)]

Dot3(a, b) == RAdd(RAdd(RMul(a[0], b[0]), RMul(a[1], b[1])), RMul(a[2], b[2]))

\* the right-handed cross product, written out
RightHandCross(a, b) ==
    [i \in 0..2 |->
        <<RSub(RMul(a[1], b[2]), RMul(a[2], b[1])),
          RSub(RMul(a[2], b[0]), RMul(a[0], b[2])),
          RSub(RMul(a[0], b[1]), RMul(a[1], b[0]))>>[i + 1]]

\* C11 as stated: for a valid camera, rows 0, 1, 2 of look_at's rotation part
\* (right, camera_up, forward) are pairwise orthogonal unit vectors, and
\* right x camera_up = forward (a right-handed basis, determinant +1).
C11_RightHandedOrthonormalBasis ==
    (look_pc \in {"viewed", "restored"} /\ ValidCamera) =>
        LET right == RotationRow(view_mat, 0)
            camera_up == RotationRow(view_mat, 1)
            forward == RotationRow(view_mat, 2)
        IN  /\ Dot3(right, right) = RInt(1)
            /\ Dot3(camera_up, camera_up) = RInt(1)
            /\ Dot3(forward, forward) = RInt(1)
            /\ Dot3(right, camera_up) = RInt(0)
            /\ Dot3(right, forward) = RInt(0)
            /\ Dot3(camera_up, forward) = RInt(0)
            /\ RightHandCross(right, camera_up) = forward

----------------------------------------------------------------------------
(* Claims about the vector and matrix library, checked under SpecCalls *)

\* the identity with t in the first three rows of its fourth column
TranslationMatrix(t) ==
    [transposed |-> FALSE,
     data |-> [r \in 0..3 |-> [c \in 0..3 |->
                  IF r = c THEN RInt(1)
                  ELSE IF c = 3 THEN t.data[r] ELSE RInt(0)]]]

\* two matrices have the same logical entries
SameEntries(m, n) ==
    \A r \in 0..3, c \in 0..3 : Mat4__get_entry(m, r, c) = Mat4__get_entry(n, r, c)

\* C12: for every Mat4 m, transposed or not, and every translation t,
\* translate_obj(m, t) has the logical entries of m.dot_mat(T), T the
\* identity with t in its fourth column; its first three columns are m's.
C12_TranslateIsRightProduct ==
    call.op = "translate_obj" =>
        /\ SameEntries(call.result,
                       Mat4_dot_mat(call.left_mat,
                                    TranslationMatrix(call.translation)))
        /\ \A r \in 0..3, c \in 0..2 :
              Mat4__get_entry(call.result, r, c)
                  = Mat4__get_entry(call.left_mat, r, c)

\* a transposed matrix has been translated, and its fourth column changed
C12_Witness ==
    /\ call.op = "translate_obj"
    /\ call.left_mat.transposed
    /\ \E r \in 0..3, c \in 0..3 :
          call.left_mat.data[r][c] # call.left_mat.data[c][r]
    /\ \E r \in 0..3 :
          Mat4__get_entry(call.result, r, 3) # Mat4__get_entry(call.left_mat, r, 3)

\* the right-hand-rule rotation about the unit vector k, by Rodrigues'
\* formula: cos I + sin [k]x + (1 - cos) k k^T
CrossMatrixEntry(k, r, c) ==
    << <<RInt(0), RNeg(k[2]), k[1]>>,
       <<k[2], RInt(0), RNeg(k[0])>>,
       <<RNeg(k[1]), k[0], RInt(0)>> >>[r + 1][c + 1]

Rodrigues(angle, k) ==
    [transposed |-> FALSE,
     data |-> [r \in 0..3 |-> [c \in 0..3 |->
         IF r = 3 \/ c = 3
         THEN (IF r = c THEN RInt(1) ELSE RInt(0))
         ELSE RAdd(RAdd(IF r = c THEN angle.cos ELSE RInt(0),
                        RMul(angle.sin, CrossMatrixEntry(k, r, c))),
                   RMul(RSub(RInt(1), angle.cos), RMul(k[r], k[c])))]]]

\* the axis divided by its length, the integer root of its squared length
UnitAxis(axis) ==
    [i \in 0..2 |-> RDiv(axis.data[i], RInt(ISqrt(Norm2(axis))))]

QuarterTurn == [cos |-> RInt(0), sin |-> RInt(1)]

Ones == Vec4_new_xyzw(RInt(1), RInt(1), RInt(1), RInt(1))

\* C13: rotate_obj(m, angle, axis) is m.dot_mat(R), R the right-hand-rule
\* rotation about the normalized axis; with m the identity and a quarter
\* turn, (1,1,1,1) goes to (1,-1,1,1) about x, (1,1,-1,1) about y and
\* (-1,1,1,1) about z.
C13_RotateIsRightProduct ==
    (call.op = "rotate_obj" /\ call.axis # ZeroVec3) =>
        /\ SameEntries(call.result,
                       Mat4_dot_mat(call.transformation,
                                    Rodrigues(call.angle_radian,
                                              UnitAxis(call.axis))))
        /\ (call.transformation = Mat4_identity
              /\ call.angle_radian = QuarterTurn) =>
              LET p == Mat4_mat_vec_dot(call.result, Ones).data
              IN  /\ call.axis = Vec3_new_xyz(RInt(1), RInt(0), RInt(0))
                        => p = Vec4_new_xyzw(RInt(1), RInt(-1), RInt(1), RInt(1)).data
                  /\ call.axis = Vec3_new_xyz(RInt(0), RInt(1), RInt(0))
                        => p = Vec4_new_xyzw(RInt(1), RInt(1), RInt(-1), RInt(1)).data
                  /\ call.axis = Vec3_new_xyz(RInt(0), RInt(0), RInt(1))
                        => p = Vec4_new_xyzw(RInt(-1), RInt(1), RInt(1), RInt(1)).data

\* a matrix other than the identity has been rotated about an oblique axis
\* by an angle that is no quarter turn
C13_Witness ==
    /\ call.op = "rotate_obj"
    /\ call.transformation # Mat4_identity
    /\ call.transformation.transposed
    /\ call.axis = Vec3_new_xyz(RInt(1), RInt(2), RInt(-2))
    /\ call.angle_radian.cos = Rat(3, 5)
    /\ \A r \in 0..3, c \in 0..3 : IsFinite(Mat4__get_entry(call.result, r, c))
    /\ ~SameEntries(call.result, call.transformation)

AxisX == <<1, 0, 0>>
AxisY == <<0, 1, 0>>
AxisZ == <<0, 0, 1>>

\* the integer components of a vector, and a vector of integer components
Ints(v) == <<v.data[0][1], v.data[1][1], v.data[2][1]>>

\* C14: Vec3::cross is the right-handed determinant expansion
\* (a.y*b.z - a.z*b.y, a.z*b.x - a.x*b.z, a.x*b.y - a.y*b.x); for the unit
\* axes, x.cross(y) = z, x.cross(z) = -y and y.cross(z) = x.
C14_CrossIsRightHanded ==
    call.op = "cross" =>
        LET a == Ints(call.self)
            b == Ints(call.right)
        IN  /\ Ints(call.result)
                  = <<a[2] * b[3] - a[3] * b[2],
                      a[3] * b[1] - a[1] * b[3],
                      a[1] * b[2] - a[2] * b[1]>>
            /\ \A i \in 0..2 : call.result.data[i][2] = 1
            /\ (a = AxisX /\ b = AxisY) => Ints(call.result) = <<0, 0, 1>>
            /\ (a = AxisX /\ b = AxisZ) => Ints(call.result) = <<0, -1, 0>>
            /\ (a = AxisY /\ b = AxisZ) => Ints(call.result) = <<1, 0, 0>>

\* the cross product of two vectors that are not parallel has been taken
C14_Witness ==
    /\ call.op = "cross"
    /\ Ints(call.self) = <<1, -1, 0>>
    /\ Ints(call.right) = <<0, 1, 1>>
    /\ Ints(call.result) = <<-1, -1, 1>>

\* the fixed size behind each checked accessor
SizeOf(op) ==
    IF op \in {"Vec3::get", "Vec3::set", "Mat3::get_entry", "Mat3::set_entry"}
    THEN 3 ELSE 4

VecAccessors == {"Vec3::get", "Vec3::set", "Vec4::get", "Vec4::set"}
MatAccessors == {"Mat3::get_entry", "Mat3::set_entry",
                 "Mat4::get_entry", "Mat4::set_entry"}
Setters == {"Vec3::set", "Vec4::set", "Mat3::set_entry", "Mat4::set_entry"}

\* the call's index is outside the fixed size
OutOfBounds ==
    IF call.op \in VecAccessors
    THEN call.index >= SizeOf(call.op)
    ELSE call.row >= SizeOf(call.op) \/ call.col >= SizeOf(call.op)

\* the error the claim describes: the largest valid index, and the index given
ExpectedError ==
    IF call.op \in VecAccessors
    THEN [range |-> <<SizeOf(call.op) - 1, 0>>, got |-> <<call.index, 0>>]
    ELSE [range |-> <<SizeOf(call.op) - 1, SizeOf(call.op) - 1>>,
          got |-> <<call.row, call.col>>]

\* C15: Vec3/Vec4 get and set and Mat3/Mat4 get_entry and set_entry return
\* an OutOfBoundError with the largest valid index and the offending index
\* whenever an index is >= the fixed size, and succeed otherwise; on error
\* the vector or matrix is unchanged.
C15_OutOfBoundErrors ==
    call.op \in VecAccessors \cup MatAccessors =>
        /\ OutOfBounds <=> ~call.ret.ok
        /\ ~call.ret.ok => call.ret.err = ExpectedError
        /\ (~call.ret.ok /\ call.op \in Setters) => call.after = call.self
        /\ (call.ret.ok /\ call.op \in {"Vec3::set", "Vec4::set"})
              => call.after = [call.self EXCEPT !.data[call.index] = call.val]
        /\ (call.ret.ok /\ call.op \in {"Mat3::set_entry", "Mat4::set_entry"})
              => /\ call.after.transposed = call.self.transposed
                 /\ call.val = IF call.after.transposed
                               THEN call.after.data[call.col][call.row]
                               ELSE call.after.data[call.row][call.col]
        /\ (call.ret.ok /\ call.op \in {"Vec3::get", "Vec4::get"})
              => call.ret.val = call.self.data[call.index]

\* a setter has been refused for a column index equal to the size while the
\* row index was valid
C15_Witness ==
    /\ call.op = "Mat4::set_entry"
    /\ call.row = 0
    /\ call.col = 4
    /\ ~call.ret.ok
    /\ call.ret.err = [range |-> <<3, 3>>, got |-> <<0, 4>>]

CheckedSums == {"Vec3::add", "Vec3::minus", "Vec4::add", "Vec4::minus"}
InPlaceSums == {"Vec3::add_", "Vec3::minus_", "Vec4::add_", "Vec4::minus_"}
UncheckedSums == {"Vec3::_add", "Vec3::_minus", "Vec4::_add", "Vec4::_minus"}
Additions == {"Vec3::add", "Vec3::add_", "Vec3::_add",
              "Vec4::add", "Vec4::add_", "Vec4::_add"}

\* the call reported a dimension mismatch with the two apparent shapes
MismatchReported ==
    /\ call.op \in CheckedSums
    /\ ~call.ret.ok
    /\ LET n == Cardinality(DOMAIN call.self.data)
       IN  call.ret.err = [expected_shape |-> Shape(call.self, n),
                           got |-> Shape(call.other, n)]

\* the component-wise sum or difference of the two operands' entries
Componentwise ==
    [i \in DOMAIN call.self.data |->
        IF call.op \in Additions
        THEN RAdd(call.self.data[i], call.other.data[i])
        ELSE RSub(call.self.data[i], call.other.data[i])]

\* the vector the call produced: returned, or left in self
Produced ==
    IF call.op \in CheckedSums THEN call.ret.val
    ELSE IF call.op \in InPlaceSums THEN call.after
    ELSE call.result

\* C16 as stated: each of add, add_, _add, minus, minus_, _minus on Vec3 and
\* Vec4 reports a DimensionMismatchError with the two apparent shapes when
\* the operands' transposed flags differ, and otherwise returns the
\* component-wise result with the operands' flag.
C16_MismatchReportedByEverySum ==
    call.op \in CheckedSums \cup InPlaceSums \cup UncheckedSums =>
        IF call.self.transposed # call.other.transposed
        THEN MismatchReported
        ELSE /\ Produced.data = Componentwise
             /\ Produced.transposed = call.self.transposed

\* C17: inverse() on a Mat3 or a Mat4 never returns a matrix; for every
\* input it fails with the not-implemented signal.
C17_InverseNotImplemented ==
    call.op \in {"Mat3::inverse", "Mat4::inverse"} =>
        /\ DOMAIN call.ret = {"panic"}
        /\ call.ret.panic = "not implemented"

\* inverse has been called on the identity, whose inverse is itself
C17_Witness ==
    /\ call.op = "Mat4::inverse"
    /\ call.self = Mat4_identity
    /\ "panic" \in DOMAIN call.ret

----------------------------------------------------------------------------
(* Claim about transposition, checked under SpecTranspose *)

\* the sum of f[0] .. f[n - 1]
RECURSIVE RSum(_, _)
RSum(f, n) == IF n = 0 THEN RInt(0) ELSE RAdd(RSum(f, n - 1), f[n - 1])

\* the product of two logical matrices, and of one with a column of entries
MatrixProduct(a, b) ==
    [r \in DOMAIN a |-> [c \in DOMAIN a |->
        RSum([i \in DOMAIN a |-> RMul(a[r][i], b[i][c])], Cardinality(DOMAIN a))]]

MatrixTimesColumn(a, v) ==
    [r \in DOMAIN a |->
        RSum([i \in DOMAIN a |-> RMul(a[r][i], v[i])], Cardinality(DOMAIN a))]

\* the other operand of the products: a matrix of the size of mat, stored
\* either way, and a vector
OtherMats ==
    IF IsMat4(mat)
    THEN {TestMat4(2, 1, FALSE), TestMat4(2, 1, TRUE)}
    ELSE {TestMat3(2, 1, FALSE), TestMat3(2, 1, TRUE)}

OtherVec ==
    IF IsMat4(mat)
    THEN Vec4_new_xyzw(RInt(1), RInt(-2), RInt(3), RInt(1))
    ELSE Vec3_new_xyz(RInt(1), RInt(-2), RInt(3))

\* the readers of mat, by its size
GetEntry(m, r, c) ==
    IF IsMat4(m) THEN Mat4_get_entry(m, r, c) ELSE Mat3_get_entry(m, r, c)
UncheckedGetEntry(m, r, c) ==
    IF IsMat4(m) THEN Mat4__get_entry(m, r, c) ELSE Mat3__get_entry(m, r, c)
GetRow(m, r) == IF IsMat4(m) THEN Mat4__get_row(m, r) ELSE Mat3__get_row(m, r)
GetColumn(m, c) ==
    IF IsMat4(m) THEN Mat4__get_column(m, c) ELSE Mat3__get_column(m, c)
DotMat(m, n) == IF IsMat4(m) THEN Mat4_dot_mat(m, n) ELSE Mat3_dot_mat(m, n)
MatVecDot(m, v) ==
    IF IsMat4(m) THEN Mat4_mat_vec_dot(m, v) ELSE Mat3_mat_vec_dot(m, v)
TransposeOf(m) == IF IsMat4(m) THEN Mat4_transpose(m) ELSE Mat3_transpose(m)

\* C18: after any sequence of transpose, transpose_ and set_entry calls,
\* every reader sees the one logical matrix the calls define: get_entry,
\* _get_entry, _get_row and _get_column return its entries, dot_mat and
\* mat_vec_dot multiply it, and get_entry(m.transpose(), r, c) is
\* get_entry(m, c, r).
C18_OneLogicalMatrix ==
    mat # <<>> =>
        /\ \A r \in DOMAIN logical, c \in DOMAIN logical :
              /\ GetEntry(mat, r, c) = Ok(logical[r][c])
              /\ UncheckedGetEntry(mat, r, c) = logical[r][c]
              /\ GetRow(mat, r).data[c] = logical[r][c]
              /\ GetColumn(mat, c).data[r] = logical[r][c]
              /\ GetEntry(TransposeOf(mat), r, c) = GetEntry(mat, c, r)
        /\ \A b \in OtherMats :
              /\ LogicalOf(DotMat(mat, b)) = MatrixProduct(logical, LogicalOf(b))
              /\ LogicalOf(DotMat(b, mat)) = MatrixProduct(LogicalOf(b), logical)
              /\ LogicalOf(DotMat(TransposeOf(mat), b))
                     = MatrixProduct(LogicalOf(TransposeOf(mat)), LogicalOf(b))
        /\ MatVecDot(mat, OtherVec).data = MatrixTimesColumn(logical, OtherVec.data)

\* a 4x4 matrix, held transposed, has had an entry off its diagonal set and
\* the entry across the diagonal left alone
C18_Witness ==
    /\ mat # <<>>
    /\ IsMat4(mat)
    /\ mat.transposed
    /\ mat_steps = 2
    /\ logical[1][3] = RInt(7)
    /\ logical[3][1] # RInt(7)
    /\ mat.data[3][1] = RInt(7)

----------------------------------------------------------------------------
(* Claims about colour conversion and vertex extraction, under SpecCalls *)

\* round(255 * clamp(c, 0, 1)), halves away from zero, for a channel c = n/d:
\* below 0 it is 0, above 1 it is 255, between them floor(255 n / d + 1/2)
ExpectedChannel(c) ==
    IF c[1] < 0 THEN 0
    ELSE IF c[1] > c[2] THEN 255
    ELSE (2 * 255 * c[1] + c[2]) \div (2 * c[2])

\* C19: to_color maps each channel c to the integer round(255 * clamp(c, 0,
\* 1)) in 0..255, halves rounded away from zero; (-0.5, 0.5, 1.5) becomes
\* (0, 128, 255).
C19_ToColorRoundsClamped ==
    call.op = "to_color" =>
        /\ \A i \in 1..3 :
              /\ call.ret[i] \in 0..255
              /\ IsFinite(call.color.data[i - 1])
                    => call.ret[i] = ExpectedChannel(call.color.data[i - 1])
        /\ call.color = Vec3_new_xyz(Rat(-1, 2), Rat(1, 2), Rat(3, 2))
              => call.ret = <<0, 128, 255>>

\* a channel strictly inside (0, 1) whose 255-fold is a half has been
\* rounded up, next to a channel above 1 and one below 0
C19_Witness ==
    /\ call.op = "to_color"
    /\ call.color.data[0] = Rat(5, 510)
    /\ call.color.data[1] = Rat(-1, 2)
    /\ call.color.data[2] = Rat(3, 2)
    /\ call.ret = <<3, 0, 255>>

\* C20: for a position buffer of 3n floats and any completion order of the
\* workers, get_position_os returns n vertices, the one at position k with
\* idx = k and position (p[3k], p[3k+1], p[3k+2], 1).
C20_VerticesInInputOrder ==
    call.op = "get_position_os" =>
        LET n == Cardinality(DOMAIN call.positions) \div 3
        IN  /\ DOMAIN call.ret = 0..(n - 1)
            /\ \A k \in 0..(n - 1) :
                  /\ call.ret[k].idx = k
                  /\ call.ret[k].position.data
                        = [i \in 0..3 |->
                              IF i = 3 THEN RInt(1)
                              ELSE call.positions[3 * k + i]]

\* the workers finished in the reverse of the input order, on vertices that
\* differ
C20_Witness ==
    /\ call.op = "get_position_os"
    /\ Len(call.done) = MaxVerts
    /\ \A j \in 1..MaxVerts : call.done[j] = MaxVerts - j
    /\ call.ret[0].position # call.ret[1].position
    /\ call.ret[MaxVerts - 1].idx = MaxVerts - 1

----------------------------------------------------------------------------
(* Claims about the bounding box of rasterization *)

\* the fragments of the recorded call at pixel (i, j)
EmittedFor(i, j) ==
    {k \in 1..Len(call.ret) : call.ret[k].x = i /\ call.ret[k].y = j}

(* C22: whatever the three projected positions, on the screen or off it,   *)
(* every fragment rasterization emits has 0 <= x < width and               *)
(* 0 <= y < height, so it addresses a cell of the z-buffer and the frame    *)
(* buffer.                                                                 *)
C22_FragmentsAddressExistingCells ==
    call.op = "rasterize_triangle" =>
        \A k \in 1..Len(call.ret) :
            /\ call.ret[k].x \in 0..(WIDTH - 1)
            /\ call.ret[k].y \in 0..(HEIGHT - 1)
            /\ call.ret[k].x \in DOMAIN zbuff
            /\ call.ret[k].y \in DOMAIN zbuff[call.ret[k].x]

\* a triangle reaching right of, left of, below and above the screen that
\* emits a fragment for every pixel
C22_Witness ==
    /\ call.op = "rasterize_triangle"
    /\ RGt(X(call.v0_dc), RInt(WIDTH))
    /\ RLt(X(call.v1_dc), RInt(0))
    /\ RLt(Y(call.v1_dc), RInt(0))
    /\ RGt(Y(call.v2_dc), RInt(HEIGHT))
    /\ Len(call.ret) = WIDTH * HEIGHT

(* C23: the bounding box is conservative: every pixel of the screen whose  *)
(* centre has three non-negative edge values gets exactly one fragment.    *)
C23_EveryCoveredPixelEmittedOnce ==
    call.op = "rasterize_triangle" =>
        \A i \in Xs, j \in Ys :
            covered(edge_functions(call.v0_dc, call.v1_dc, call.v2_dc, i, j))
                => Cardinality(EmittedFor(i, j)) = 1

----------------------------------------------------------------------------
(* Claims about the device-space vertices of rasterization *)

(* C24: for a projection matrix whose clip-space w is -z_eye, the z of the *)
(* device-space vertex is -1 / z_eye, z_eye being the z of the eye-space   *)
(* position that was projected.                                            *)
C24_DeviceZIsNegativeReciprocalOfEyeZ ==
    call.op = "device_vertex" =>
        /\ W(Mat4_mat_vec_dot(call.perspective_mat, call.p)) = RNeg(Z(call.p))
        /\ Z(call.ret) = RDiv(RInt(-1), Z(call.p))

----------------------------------------------------------------------------
(* Claims about the vertex normals *)

(* C25: get_normals returns one normal for every vertex of the vertex      *)
(* collection, and the normal at position k of the sorted result is that   *)
(* of vertex k.                                                            *)
C25_OneNormalPerVertexAtItsIndex ==
    call.op = "get_normals" =>
        /\ DOMAIN call.ret = DOMAIN call.vertices
        /\ \A k \in DOMAIN call.ret : call.ret[k].vertex_idx = k

----------------------------------------------------------------------------
(* Claims about the eye-space normals *)

\* the rotation of look_at applied to the direction n: its rows are right,
\* camera_up and the look-at direction
ViewRotation(eye, center, up, n) ==
    LET b == camera_basis(eye, center, up)
    IN  Vec3_new_xyz(Dot3(b.right.data, n.data), Dot3(b.camera_up.data, n.data),
                     Dot3(b.f.data, n.data))

(* C26: the eye-space normal the frame loop computes from a world-space    *)
(* normal (n, 0) is a direction: its w is 0 and its x, y, z are the view   *)
(* rotation applied to n, of unit length, whatever the camera translation. *)
C26_EyeSpaceNormalIsRotatedDirection ==
    call.op = "normal_ec" =>
        /\ W(call.ret.vec) = RInt(0)
        /\ Vec3_from(call.ret.vec).data
              = Vec3_normalize_(ViewRotation(call.eye, call.center, call.up,
                                             Vec3_from(call.n_wc.vec))).data

----------------------------------------------------------------------------
(* Claims about the in-place variants of the vector operations *)

\* v has the components of w and the transposed flag of the receiver
SameAs(v, w) ==
    v.data = w.data /\ v.transposed = w.transposed
        /\ v.transposed = call.self.transposed

(* C30: on operands with matching transposed flags, the variants of each   *)
(* vector operation (add, _add, add_; minus, _minus, minus_; scalar_mul,   *)
(* scalar_mul_; normalize, normalize_) give the same components and the    *)
(* transposed flag of the receiver, for Vec3 and for Vec4.                 *)
C30_VariantsAgree ==
    call.op \in {"Vec3 variants", "Vec4 variants"} =>
        /\ call.add.ok
        /\ SameAs(call.add.val, call.add_)
        /\ SameAs(call._add, call.add_)
        /\ call.minus.ok
        /\ SameAs(call.minus.val, call.minus_)
        /\ SameAs(call._minus, call.minus_)
        /\ SameAs(call.scalar_mul, call.scalar_mul_)
        /\ SameAs(call.normalize, call.normalize_)

(* C29: a frame ends with both flags of the canvas state false and with
   keycode, x, y, virtual_x and virtual_y as they were, so that a press that
   handle_input recorded is seen by one frame only; handle_input never turns
   a flag off, and a cursor move, a mouse release, a key event without a
   virtual keycode and an event of another kind change neither flag. *)
C29_FlagsAreConsumedByOneFrame ==
    /\ [][/\ last'.op = "render" =>
                 state' = [state EXCEPT !.received_mouse_press = FALSE,
                                        !.received_keycode = FALSE]
          /\ last'.op = "handle_input" =>
                 /\ state.received_mouse_press => state'.received_mouse_press
                 /\ state.received_keycode => state'.received_keycode]_vars
    /\ [](\A info \in Infos, event \in Events :
            LET after ==
                    KeyboardMouseStates_handle_input(info, state, event).state
            IN  \/ event.kind \in {"CursorMoved", "Focused", "DeviceEvent"}
                \/ /\ event.kind = "MouseInput"
                   /\ event.state = "Released"
                \/ /\ event.kind = "KeyboardInput"
                   /\ event.virtual_keycode = "None"
                => /\ after.received_mouse_press = state.received_mouse_press
                   /\ after.received_keycode = state.received_keycode)

\* a frame has seen a press of the mouse and the key P, with the cursor at
\* the right edge, and has left the state with both flags off
C29_Witness ==
    /\ last.op = "render"
    /\ last.observed.received_mouse_press
    /\ last.observed.received_keycode
    /\ ~state.received_mouse_press
    /\ ~state.received_keycode
    /\ state.keycode = "P"
    /\ state.x = WIDTH
    /\ state.virtual_x = WIDTH

\* the shading mode that a frame works with, for the mode and the canvas
\* state it finds
ModeOfFrame(mode, st) ==
    IF st.received_keycode /\ st.keycode = "P" THEN FALSE
    ELSE IF st.received_keycode /\ st.keycode = "G" THEN TRUE
    ELSE mode

(* C27: the shading mode is Gouraud at the start; an input event leaves it
   alone; a frame that finds received_keycode set with the key P makes it
   Phong, with the key G makes it Gouraud, and any other frame leaves it as
   it is; and every pixel that the frame colours is coloured in the branch
   of that mode from attributes made in the branch of that same mode. *)
C27_ShadingModeFollowsKeys ==
    /\ gouraud_shading = TRUE
    /\ [][/\ last'.op = "handle_input" =>
                 gouraud_shading' = gouraud_shading
          /\ last'.op = "render" =>
                 LET mode == ModeOfFrame(gouraud_shading, state)
                 IN  /\ gouraud_shading' = mode
                     /\ \A x \in Xs, y \in Ys :
                           frame_buffer_image'[x][y] \in
                             {BLACK,
                              fragment_color(mode,
                                [tri |-> scene_attributes(cam_pos_wc',
                                                          mode)])}]_vars

\* a frame has found the key P and has coloured a pixel as Phong shading
\* does, and the mode is Phong after it
C27_Witness ==
    /\ last.op = "render"
    /\ last.observed.received_keycode
    /\ last.observed.keycode = "P"
    /\ gouraud_shading = FALSE
    /\ frame_buffer_image[0][0] =
          fragment_color(FALSE, [tri |-> scene_attributes(cam_pos_wc, FALSE)])

(* C28: a frame that finds a mouse press after the first one rotates the
   eye by the rotation between the arcball point of the press before it and
   the arcball point of this press; a frame that finds no press, and an
   input event, leave the eye where it is. *)
C28_RotationFromPrecedingPress ==
    [][/\ last'.op = "render" /\ state.received_mouse_press
           /\ arc_ball_initialized =>
             cam_pos_wc' =
                 mouse_press([Captured EXCEPT
                                 !.arc_ball_previous = preceding_press],
                             state.x, state.y).cam_pos_wc
       /\ last'.op = "render" /\ ~state.received_mouse_press =>
             cam_pos_wc' = cam_pos_wc
       /\ last'.op = "handle_input" => cam_pos_wc' = cam_pos_wc]_vars

\* the image of a frame made from the captured variables c and the canvas
\* state st, on a frame buffer and a z-buffer that no frame has touched
ImageOfFrame(c, st) ==
    render(c, st, [x \in Xs |-> [y \in Ys |-> BLACK]],
           ZBuffer_new(WIDTH, HEIGHT, F32_MAX)).frame_buffer_image

(* C21 as stated: the image of a frame is determined by the eye position and
   the input that the frame finds, whatever the frames before it did: it is
   the image that a frame makes from that eye and that input with all else
   as it is before the first frame. *)
C21_FrameDependsOnEyeAndInputOnly ==
    [][last'.op = "render" =>
          frame_buffer_image' =
              ImageOfFrame([Captured EXCEPT
                               !.gouraud_shading = TRUE,
                               !.arc_ball_initialized = FALSE,
                               !.arc_ball_previous =
                                   Vec3_new_xyz(RInt(0), RInt(0), RInt(0)),
                               !.i = 0],
                           state)]_vars

(* C21, amended: the image of a frame is determined by the eye position, the
   shading mode, the two arcball variables and the input that the frame
   finds; it does not depend on the frame buffer, the z-buffer or the frame
   counter that the frames before it left, and the frame leaves the z-buffer
   as ZBuffer::new made it. *)
C21_FrameDependsOnCapturedStateAndInput ==
    [][last'.op = "render" =>
          /\ frame_buffer_image' =
                 ImageOfFrame([Captured EXCEPT !.i = 0], state)
          /\ zbuff' = ZBuffer_new(WIDTH, HEIGHT, F32_MAX)]_vars

\* a frame that found no key has coloured a pixel as Phong shading does,
\* after an earlier frame has initialized the arcball
C21_Witness ==
    /\ last.op = "render"
    /\ ~last.observed.received_keycode
    /\ arc_ball_initialized
    /\ gouraud_shading = FALSE
    /\ frame_i > 2
    /\ frame_buffer_image[WIDTH - 1][HEIGHT - 1] =
          fragment_color(FALSE, [tri |-> scene_attributes(cam_pos_wc, FALSE)])

=============================================================================
